---------------------------- MODULE Spec2Model ----------------------------
(***************************************************************************)
(* Model of the hybrid retrieval engine and RAG answer pipeline of the     *)
(* arXiv RAG worker: SearchService (keywordSearch, semanticSearch,         *)
(* hybridSearch), RAGService (generateAnswer, streamAnswer) and the        *)
(* collaborators they call (D1Client, EmbeddingsService, Workers AI).      *)
(* Beside the request model (Spec) and the studies of the pure functions   *)
(* (FuseSpec, NormSpec, SemSpec, FormatSpec) the module holds the batch    *)
(* embedding loop (BatchSpec), RateLimiter.checkLimit under concurrent     *)
(* calls (RateSpec), AISearchSetupService (SetupSpec), the /stream route   *)
(* (RouteSpec) and two concurrent requests (ConcSpec).                     *)
(*                                                                         *)
(* Numbers.  Raw result scores and the two list weights are held in        *)
(* tenths (5 stands for 0.5).  A fused RRF score is held as an integer     *)
(* numerator over the common denominator 10 * RRFDen, where RRFDen is the  *)
(* product of the RRF denominators k+1 .. k+MaxRank, so that every         *)
(* weight / (k + rank + 1) is an exact integer.  A normalized score is an  *)
(* exact fraction in lowest terms.                                         *)
(***************************************************************************)
EXTENDS Integers, Sequences, FiniteSets, TLC

\* ------------------------------------------------------------------ bounds
\* Largest topK a request asks for.
MaxTopK == 2

\* Papers in the store of the request model (the fusion is studied over the
\* whole of Papers).
StoreSize == 2

\* Longest list handed to normalizeScores when it is studied alone.
MaxNormLen == 3

\* Most fragments the language model streams in one answer.
MaxChunks == 2

\* Most chunk rows in the store when semanticSearch is studied alone.
MaxRows == 3

\* Most chunk rows in the store of the request model.
MaxRequestRows == 2

\* Most tokens in a model output when formatAnswerWithCitations is studied
\* alone.
MaxAnswerLen == 3

\* Longest list of texts handed to generateEmbeddingsBatch: one more than a
\* batch, so that a second batch exists.
MaxTexts == 11

\* Concurrent checkLimit calls for one identifier in one window.
MaxCallers == 3

\* Calls of ensureAISearchInstance on the singleton.
MaxSetupCalls == 3

\* Most fragments streamAnswer yields to the /stream route.
MaxFragments == 4

\* ------------------------------------------------------------- the store
\* Paper.id is optional (id?: string); NoId stands for an absent (falsy) id.
NoId == ""

\* Papers a store can hold.  arxiv_id is UNIQUE NOT NULL, id is the primary
\* key when present, published_date orders the keyword results.
PaperSeq ==
  << [arxiv_id |-> "2401.00001", id |-> "p1", published_date |-> 4, category |-> "cs.AI"],
     [arxiv_id |-> "2401.00003", id |-> NoId, published_date |-> 2, category |-> "cs.LG"],
     [arxiv_id |-> "2401.00002", id |-> "p2", published_date |-> 3, category |-> "cs.AI"],
     [arxiv_id |-> "2401.00004", id |-> NoId, published_date |-> 1, category |-> "cs.LG"] >>

Papers == { PaperSeq[i] : i \in 1..Len(PaperSeq) }

\* Longest result list a store can give: one row per paper.
MaxRank == Cardinality(Papers)

Min(a, b) == IF a < b THEN a ELSE b

\* Sequences over S without repetition, of length at most n.
DistinctSeqs(S, n) ==
  UNION { { s \in [1..m -> S] : \A i, j \in 1..m : i # j => s[i] # s[j] }
          : m \in 0..Min(n, Cardinality(S)) }

RECURSIVE GCD(_, _)
GCD(a, b) == IF b = 0 THEN a ELSE GCD(b, a % b)

Abs(x) == IF x < 0 THEN -x ELSE x

\* The exact quotient n / d (d > 0) in lowest terms.
Frac(n, d) ==
  LET g == GCD(Abs(n), d)
  IN  [num |-> n \div g, den |-> d \div g]

\* -------------------------------------------------- D1Client.searchKeyword
\* ORDER BY published_date DESC over the rows that matched.
RECURSIVE OrderByDateDesc(_)
OrderByDateDesc(S) ==
  IF S = {} THEN <<>>
  ELSE LET newest == CHOOSE p \in S : \A q \in S : q.published_date <= p.published_date
       IN  <<newest>> \o OrderByDateDesc(S \ {newest})

\* SearchService.hybridSearch: .slice(0, n)
slice(seq, n) == SubSeq(seq, 1, Min(n, Len(seq)))

\* The rows searchKeyword returns for the set of papers matching the LIKE
\* pattern: date order, LIMIT limit, each with the placeholder score 0.5.
searchKeyword(matched, limit) ==
  LET rows == slice(OrderByDateDesc(matched), limit)
  IN  [i \in 1..Len(rows) |-> [paper |-> rows[i], score |-> 5, relevance |-> "keyword"]]

\* Every answer searchKeyword can give for some query over the store S.
KeywordLists(S, limit) == { searchKeyword(m, limit) : m \in SUBSET S }

\* ----------------------------------------- SearchService.semanticSearch
\* Aggregated similarity scores a paper can carry (tenths); every retained
\* chunk scored at least minSimilarity = 0.3.
SemanticScores == {3, 8}

\* What semanticSearch can return over the store S under topK: one result
\* per paper (the paperScores map), sorted by score descending, at most topK.
SemanticLists(S, topK) ==
  UNION { { [i \in 1..Len(ps) |-> [paper |-> ps[i], score |-> sc[i], relevance |-> "semantic"]]
            : sc \in { f \in [1..Len(ps) -> SemanticScores] :
                         \A i \in 1..Len(ps) : \A j \in 1..Len(ps) : i < j => f[i] >= f[j] } }
          : ps \in DistinctSeqs(S, topK) }

\* ------------------------------------------- SearchService.hybridSearch
MaxOf(S) == CHOOSE x \in S : \A y \in S : y <= x

MinOf(S) == CHOOSE x \in S : \A y \in S : x <= y

\* normalizeScores dividing by the smallest score instead of the largest.
normalizeScoresByMin(results) ==
  IF Len(results) = 0 THEN results
  ELSE LET minScore == MinOf({ results[i].score : i \in 1..Len(results) })
       IN  [i \in 1..Len(results) |->
              [results[i] EXCEPT !.score =
                 IF minScore > 0 THEN Frac(results[i].score, minScore)
                                 ELSE Frac(0, 1)]]

\* normalizeScores: divide every score by the list's maximum.
normalizeScores(results) ==
  IF Len(results) = 0 THEN results
  ELSE LET maxScore == MaxOf({ results[i].score : i \in 1..Len(results) })
       IN  [i \in 1..Len(results) |->
              [results[i] EXCEPT !.score =
                 IF maxScore > 0 THEN Frac(results[i].score, maxScore)
                                 ELSE Frac(0, 1)]]

\* const k = 60; // RRF constant
k == 60

RECURSIVE Product(_, _)
Product(lo, hi) == IF lo > hi THEN 1 ELSE lo * Product(lo + 1, hi)

\* Common denominator of 1/(k+1) .. 1/(k+MaxRank).
RRFDen == Product(k + 1, k + MaxRank)

\* The integer that stands for the score 1.0 (weights are in tenths).
ScoreOne == 10 * RRFDen

\* rrfScore without the list weight: 1 / (k + i + 1).
rrfScoreUnweighted(i, weight) == (RRFDen \div (k + i + 1)) * 10

\* const rrfScore = (1 / (k + i + 1)) * weight, i zero-based.
rrfScore(i, weight) == (RRFDen \div (k + i + 1)) * weight

\* The template literal `unknown_${i}`.
UnknownKey(i) == <<"unknown_0", "unknown_1", "unknown_2", "unknown_3",
                   "unknown_4", "unknown_5", "unknown_6", "unknown_7">>[i + 1]

\* const paperId = result.paper.id || `unknown_${i}`
paperIdOf(result, i) == IF result.paper.id # NoId THEN result.paper.id ELSE UnknownKey(i)

has(combined, key) == \E j \in 1..Len(combined) : combined[j].key = key

\* The loop awarding the reciprocal rank scaled by the normalized score of
\* the result, which makes the fusion depend on score magnitudes.
RECURSIVE accumulateByMagnitude(_, _, _, _)
accumulateByMagnitude(combined, list, weight, i) ==
  IF i >= Len(list) THEN combined
  ELSE LET result  == list[i + 1]
           paperId == paperIdOf(result, i)
           award   == (rrfScore(i, weight) * result.score.num) \div result.score.den
           added   == IF has(combined, paperId) THEN combined
                      ELSE Append(combined, [key |-> paperId, paper |-> result.paper, score |-> 0])
           updated == [j \in 1..Len(added) |->
                         IF added[j].key = paperId
                         THEN [added[j] EXCEPT !.score = @ + award]
                         ELSE added[j]]
       IN  accumulateByMagnitude(updated, list, weight, i + 1)

\* One pass of the loop `for (let i = 0; i < list.length; i++)` from index i
\* on, over the map combinedScores held in insertion order.
RECURSIVE accumulate(_, _, _, _)
accumulate(combined, list, weight, i) ==
  IF i >= Len(list) THEN combined
  ELSE LET result  == list[i + 1]
           paperId == paperIdOf(result, i)
           added   == IF has(combined, paperId) THEN combined
                      ELSE Append(combined, [key |-> paperId, paper |-> result.paper, score |-> 0])
           updated == [j \in 1..Len(added) |->
                         IF added[j].key = paperId
                         THEN [added[j] EXCEPT !.score = @ + rrfScore(i, weight)]
                         ELSE added[j]]
       IN  accumulate(updated, list, weight, i + 1)

\* The map combinedScores after both loops.
combinedScores(keywordResults, semanticResults, keywordWeight, semanticWeight) ==
  LET normKeyword  == normalizeScores(keywordResults)
      normSemantic == normalizeScores(semanticResults)
  IN  accumulate(accumulate(<<>>, normKeyword, keywordWeight, 0),
                 normSemantic, semanticWeight, 0)

\* The sort with the comparator reversed: (a, b) => a.score - b.score.
sortByScoreAsc(seq) ==
  LET pos(i) == 1 + Cardinality({ j \in 1..Len(seq) :
                     \/ seq[j].score < seq[i].score
                     \/ seq[j].score = seq[i].score /\ j < i })
  IN  [p \in 1..Len(seq) |-> seq[CHOOSE i \in 1..Len(seq) : pos(i) = p]]

\* A descending sort that is not stable: entries of equal score come out in
\* the reverse of their order in the input.
sortByScoreDescUnstable(seq) ==
  LET pos(i) == 1 + Cardinality({ j \in 1..Len(seq) :
                     \/ seq[j].score > seq[i].score
                     \/ seq[j].score = seq[i].score /\ j > i })
  IN  [p \in 1..Len(seq) |-> seq[CHOOSE i \in 1..Len(seq) : pos(i) = p]]

\* Array.prototype.sort((a, b) => b.score - a.score): stable, descending.
sortByScoreDesc(seq) ==
  LET pos(i) == 1 + Cardinality({ j \in 1..Len(seq) :
                     \/ seq[j].score > seq[i].score
                     \/ seq[j].score = seq[i].score /\ j < i })
  IN  [p \in 1..Len(seq) |-> seq[CHOOSE i \in 1..Len(seq) : pos(i) = p]]

\* The value hybridSearch returns once both searches have resolved.
fuse(keywordResults, semanticResults, topK, keywordWeight, semanticWeight) ==
  LET combined == combinedScores(keywordResults, semanticResults, keywordWeight, semanticWeight)
      top      == slice(sortByScoreDesc(combined), topK)
  IN  [i \in 1..Len(top) |-> [paper |-> top[i].paper, score |-> top[i].score, relevance |-> "hybrid"]]

\* Weights a caller passes (tenths); the route does not validate them.
KeywordWeights  == {0, 5, 10}
SemanticWeights == {0, 5}

\* ------------------------------------------------------ EmbeddingsService
\* throw new Error('Vectors must have same dimension')
DimensionError == "Vectors must have same dimension"
\* The SyntaxError JSON.parse throws.
ParseError == "SyntaxError: Unexpected token in JSON"

\* Vector components and similarities.  A component is an integer; a cosine
\* similarity and the threshold minSimilarity are held in tenths (3 stands
\* for 0.3).  The vectors of the model have integer magnitudes (|(3,4)| = 5),
\* so every cosine is an exact number of tenths.
Sqrt(n) == CHOOSE r \in 0..n : r * r = n

RECURSIVE Dot(_, _, _)
Dot(a, b, n) == IF n = 0 THEN 0 ELSE a[n] * b[n] + Dot(a, b, n - 1)

\* cosineSimilarity over the common prefix of the two vectors, without the
\* dimension check.
cosineSimilarityTruncating(a, b) ==
  LET n          == Min(Len(a), Len(b))
      dotProduct == Dot(a, b, n)
      magnitude  == Sqrt(Dot(a, a, n)) * Sqrt(Dot(b, b, n))
  IN  [threw |-> FALSE,
       value |-> IF magnitude = 0 THEN 0 ELSE (dotProduct * 10) \div magnitude]

\* cosineSimilarity(a, b): throws on vectors of different lengths, 0 when a
\* magnitude is 0, the cosine otherwise.
cosineSimilarity(a, b) ==
  IF Len(a) # Len(b) THEN [threw |-> TRUE, value |-> 0]
  ELSE LET dotProduct == Dot(a, b, Len(a))
           normA      == Dot(a, a, Len(a))
           normB      == Dot(b, b, Len(b))
           magnitude  == Sqrt(normA) * Sqrt(normB)
       IN  [threw |-> FALSE,
            value |-> IF magnitude = 0 THEN 0 ELSE (dotProduct * 10) \div magnitude]

\* findSimilar keeping every candidate, whatever it scored.
findSimilarUnfiltered(queryEmbedding, candidates, topK, minSimilarity) ==
  LET scores == [i \in 1..Len(candidates) |->
                   cosineSimilarity(queryEmbedding, candidates[i].embedding)]
  IN  IF \E i \in 1..Len(candidates) : scores[i].threw
      THEN [threw |-> TRUE, value |-> <<>>]
      ELSE [threw |-> FALSE,
            value |-> slice(sortByScoreDesc(
                        [i \in 1..Len(candidates) |->
                           [id |-> candidates[i].id, score |-> scores[i].value]]), topK)]

\* findSimilar(queryEmbedding, candidates, topK, minSimilarity): score every
\* candidate (a throwing cosineSimilarity ends the call), keep those at or
\* above minSimilarity, sort by score descending, slice(0, topK).
findSimilar(queryEmbedding, candidates, topK, minSimilarity) ==
  LET scores == [i \in 1..Len(candidates) |->
                   cosineSimilarity(queryEmbedding, candidates[i].embedding)]
  IN  IF \E i \in 1..Len(candidates) : scores[i].threw
      THEN [threw |-> TRUE, value |-> <<>>]
      ELSE LET scored == [i \in 1..Len(candidates) |->
                            [id |-> candidates[i].id, score |-> scores[i].value]]
               kept   == SelectSeq(scored, LAMBDA s : s.score >= minSimilarity)
           IN  [threw |-> FALSE, value |-> slice(sortByScoreDesc(kept), topK)]

\* --------------------------------------------- the stored embedding blobs
\* An embedding is stored as the text JSON.stringify(embedding), held here
\* as its sequence of tokens; NoBlob is an absent (null or empty) blob.
NoBlob == <<>>

NumberTokens == {"-3", "0", "1", "3", "4"}

NumberOf(token) ==
  CASE token = "-3" -> -3
    [] token = "0"  -> 0
    [] token = "1"  -> 1
    [] token = "3"  -> 3
    [] token = "4"  -> 4

TokenOf(n) == CHOOSE token \in NumberTokens : NumberOf(token) = n

\* JSON.stringify(embedding) for an array of numbers.
JSONstringify(embedding) ==
  <<"[">> \o [i \in 1..(2 * Len(embedding) - 1) |->
                IF i % 2 = 1 THEN TokenOf(embedding[(i + 1) \div 2]) ELSE ","]
          \o <<"]">>

\* JSON.parse(text) for the texts a blob can hold: an array of numbers
\* parses to the array, anything else does not parse.
JSONparse(text) ==
  LET n     == Len(text)
      inner == SubSeq(text, 2, n - 1)
      wellFormed ==
        /\ n >= 2 /\ text[1] = "[" /\ text[n] = "]"
        /\ Len(inner) = 0 \/ Len(inner) % 2 = 1
        /\ \A i \in 1..Len(inner) :
             IF i % 2 = 1 THEN inner[i] \in NumberTokens ELSE inner[i] = ","
  IN  IF wellFormed
      THEN [threw |-> FALSE,
            value |-> [i \in 1..((Len(inner) + 1) \div 2) |-> NumberOf(inner[2 * i - 1])]]
      ELSE [threw |-> TRUE, value |-> <<>>]

\* ------------------------------ SearchService.semanticSearch, after the store
\* A row of getAllChunksWithEmbeddings is [chunkId, paperId, paper, embedding],
\* embedding being the stored blob.

\* The candidates built without .filter(c => c.embedding): a row without a
\* blob goes through JSON.parse(c.embedding || '[]') and becomes the empty
\* vector.
candidatesOfEveryRow(allChunks) ==
  [i \in 1..Len(allChunks) |->
     [id |-> allChunks[i].chunkId,
      embedding |-> JSONparse(IF allChunks[i].embedding # NoBlob
                              THEN allChunks[i].embedding ELSE <<"[", "]">>)]]

\* allChunks.filter(c => c.embedding).map(c => ({ id: c.chunkId, ...,
\* embedding: JSON.parse(c.embedding || '[]') })); each embedding is the
\* outcome of its JSON.parse.
candidatesOf(allChunks) ==
  LET withBlob == SelectSeq(allChunks, LAMBDA c : c.embedding # NoBlob)
  IN  [i \in 1..Len(withBlob) |->
         [id |-> withBlob[i].chunkId, embedding |-> JSONparse(withBlob[i].embedding)]]

\* The call of findSimilar in semanticSearch: not reached when a JSON.parse
\* threw while the candidates were built.
similarOf(queryEmbedding, allChunks, topK, minSimilarity) ==
  LET parsed == candidatesOf(allChunks)
  IN  IF \E i \in 1..Len(parsed) : parsed[i].embedding.threw
      THEN [called |-> FALSE, threw |-> FALSE, value |-> <<>>]
      ELSE LET candidates == [i \in 1..Len(parsed) |->
                                [id |-> parsed[i].id, embedding |-> parsed[i].embedding.value]]
               similar    == findSimilar(queryEmbedding, candidates, topK, minSimilarity)
           IN  [called |-> TRUE, threw |-> similar.threw, value |-> similar.value]

\* allChunks.find(c => c.chunkId === id)
findChunk(allChunks, id) ==
  allChunks[CHOOSE i \in 1..Len(allChunks) :
              /\ allChunks[i].chunkId = id
              /\ \A j \in 1..(i - 1) : allChunks[j].chunkId # id]

\* The grouping loop keeping, for each paper, the best chunk score instead
\* of the sum.
RECURSIVE groupByPaperMax(_, _, _, _)
groupByPaperMax(paperScores, similar, allChunks, i) ==
  IF i > Len(similar) THEN paperScores
  ELSE LET result  == similar[i]
           chunk   == findChunk(allChunks, result.id)
           added   == IF has(paperScores, chunk.paperId) THEN paperScores
                      ELSE Append(paperScores,
                                  [key |-> chunk.paperId, paper |-> chunk.paper, score |-> 0])
           updated == [j \in 1..Len(added) |->
                         IF added[j].key = chunk.paperId
                         THEN [added[j] EXCEPT !.score = IF result.score > @ THEN result.score ELSE @]
                         ELSE added[j]]
       IN  groupByPaperMax(updated, similar, allChunks, i + 1)

\* for (const result of similar): the map paperScores, in insertion order,
\* from the i-th result on; existing.score += result.score.
RECURSIVE groupByPaper(_, _, _, _)
groupByPaper(paperScores, similar, allChunks, i) ==
  IF i > Len(similar) THEN paperScores
  ELSE LET result  == similar[i]
           chunk   == findChunk(allChunks, result.id)
           added   == IF has(paperScores, chunk.paperId) THEN paperScores
                      ELSE Append(paperScores,
                                  [key |-> chunk.paperId, paper |-> chunk.paper, score |-> 0])
           updated == [j \in 1..Len(added) |->
                         IF added[j].key = chunk.paperId
                         THEN [added[j] EXCEPT !.score = @ + result.score]
                         ELSE added[j]]
       IN  groupByPaper(updated, similar, allChunks, i + 1)

\* semanticSearch from the rows of the store on: what its promise settles
\* with.  Every throw inside the try block is logged and rethrown.
semanticAfterChunks(queryEmbedding, allChunks, topK, minSimilarity) ==
  IF Len(allChunks) = 0 THEN [st |-> "done", results |-> <<>>, error |-> ""]
  ELSE LET similar == similarOf(queryEmbedding, allChunks, topK, minSimilarity)
       IN  IF ~similar.called THEN [st |-> "failed", results |-> <<>>, error |-> ParseError]
           ELSE IF similar.threw THEN [st |-> "failed", results |-> <<>>, error |-> DimensionError]
           ELSE LET paperScores == groupByPaper(<<>>, similar.value, allChunks, 1)
                    top         == slice(sortByScoreDesc(paperScores), topK)
                IN  [st |-> "done",
                     results |-> [i \in 1..Len(top) |->
                                    [paper |-> top[i].paper, score |-> top[i].score,
                                     relevance |-> "semantic"]],
                     error |-> ""]

\* ------------------------------------------------------- answer texts
\* A text (the model's output, an answer) is held as its sequence of tokens:
\* a word, white space, a citation marker [n], the heading 'Sources:', or a
\* citation line `[n] Author et al., "Title", arXiv:<arxiv_id> (date)`.
Token(kind, index, arxiv_id) == [kind |-> kind, index |-> index, arxiv_id |-> arxiv_id]

Word     == Token("word", 0, "")
Space    == Token("space", 0, "")
Marker(n) == Token("marker", n, "")
\* '\n\nSources:\n'
SourcesHeading == Token("Sources:", 0, "")
CitationLine(n, paper) == Token("citation", n, paper.arxiv_id)

\* String.prototype.trim()
RECURSIVE trim(_)
trim(text) ==
  IF Len(text) = 0 THEN text
  ELSE IF text[1] = Space THEN trim(Tail(text))
  ELSE IF text[Len(text)] = Space THEN trim(SubSeq(text, 1, Len(text) - 1))
  ELSE text

\* String.prototype.includes(token)
includes(text, token) == \E i \in 1..Len(text) : text[i] = token

\* ------------------------------------------------------- error messages
\* throw new Error('Query cannot be empty')
EmptyQueryError == "Query cannot be empty"
\* throw new Error('Text cannot be empty')
EmptyTextError == "Text cannot be empty"
\* throw new Error('Invalid embedding response')
InvalidEmbeddingError == "Invalid embedding response"
\* A rejection of the D1 binding, and one of the Workers AI binding.
D1Failure == "D1 call rejected"
AIFailure == "AI call rejected"

\* The validation left out.
isEmptyQueryNever(q) == FALSE

\* if (!query || query.length === 0)
isEmptyQuery(q) == q = ""

\* EmbeddingsService.generateEmbedding: if (!text || text.length === 0)
isEmptyText(text) == text = ""

SearchEntries == {"keywordSearch", "semanticSearch", "hybridSearch"}
RagEntries    == {"generateAnswer", "streamAnswer"}

NoCategory == ""

\* Calls on the collaborators.
CallSearchKeyword == "d1Client.searchKeyword"
CallEmbed         == "ai.run(bge-base-en-v1.5)"
CallGetChunks     == "d1Client.getAllChunksWithEmbeddings"
CallLLM           == "ai.run(llama-3.3-70b-instruct)"

VARIABLES
  \* --- one request against a SearchService / RAGService pair
  entry,          \* the entry point called, "none" before the call
  query, topK, keywordWeight, semanticWeight, category,
  searchType,     \* the search that serves the request: keyword | semantic | hybrid
  kw,             \* the keywordSearch promise:  [st, results, error]
  sem,            \* the semanticSearch promise: [st, results, error]
  queryEmbedding, \* what generateEmbedding resolved with, <<>> before it has
  hyb,            \* the hybridSearch promise:   [st, results, error]
  settled,        \* the searches in the order they settled
  rag,            \* RAGService's position: [st, searchResults, llm, pulled, cited,
                  \* arrived, invocations]; llm is what the model call gave:
                  \* none | text | malformed; arrived holds, per chunk pulled from
                  \* the model's sequence, whether it carried text; invocations
                  \* counts the runs of the language model
  fragments,      \* what streamAnswer has yielded so far
  outcome,        \* the entry point's promise: [st, value, error]
  calls,          \* the calls issued on the store and the models
  \* --- the fusion studied as a function of its inputs
  fKeyword,       \* keywordResults
  fSemantic,      \* semanticResults
  fTopK, fKeywordWeight, fSemanticWeight,
  fOut,           \* the list the fusion returned
  fPc,            \* "idle" | "ready" | "fused"
  \* --- normalizeScores studied as a function of its input
  nIn, nOut, nPc, \* nPc: "idle" | "ready" | "normalized"
  \* --- semanticSearch studied as a function of the embedding and the rows
  sQuery,         \* queryEmbedding
  sChunks,        \* allChunks
  sTopK, sMinSimilarity,
  sSimilar,       \* what the call of findSimilar gave: [called, threw, value]
  sOut,           \* what semanticSearch settled with: [st, results, error]
  sPc,            \* "idle" | "ready" | "searched"
  \* --- formatAnswerWithCitations studied as a function of its inputs
  aAnswer,        \* answer: the model's raw output
  aSources,       \* sources
  aOut,           \* the formatted answer
  aPc             \* "idle" | "ready" | "formatted"

VARIABLES
  \* --- generateEmbeddingsBatch studied over its embedding calls
  bTexts,         \* texts
  bCalls,         \* per text, its generateEmbedding call:
                  \* "none" | "inflight" | "resolved" | "rejected"
  bIndex,         \* the loop variable i
  bEmbeddings,    \* the array embeddings
  bOutOfOrder,    \* a call resolved while an earlier call of its batch was in flight
  bOut,           \* the promise of generateEmbeddingsBatch: [st, value, error]
  bPc,            \* "idle" | "ready" | "called"
  \* --- RateLimiter.checkLimit called concurrently for one identifier
  rEnabled,       \* config.enabled && env.CACHE
  rLimit,         \* limit
  rCached,        \* the value the cache holds under cacheKey, NoValue if none
  rPc,            \* per call: "idle" | "get" | "put" | "admitted" | "limited"
  rCount,         \* per call, its local count
  rCacheFailed,   \* a cache call has rejected
  rStarted,       \* "idle" | "ready"
  \* --- AISearchSetupService.ensureAISearchInstance called on the singleton
  gInProgress,    \* setupInProgress
  gCache,         \* setupCache: per cache key "absent" | "true" | "false"
  gCalls,         \* per call [pc, key, busy, cached, path, result]: pc is
                  \* "idle" | "checking" | "creating" | "returned"; busy and cached
                  \* are setupInProgress and setupCache.has(cacheKey) as the call
                  \* found them; path is "none" | "cached" | "busy" | "ran"
  gStarted,       \* "idle" | "ready"
  \* --- one request to the /stream route
  tPc,            \* "idle" | "ready" | the event whose write is awaited ("start",
                  \* "chunk", "complete", "error") | "pull" | "closing" | "done"
  tResponse,      \* "none" | "stream" | "400"
  tEvents,        \* the events the writer accepted: [type, fragment]
  tYielded,       \* the fragments streamAnswer has yielded
  tGen,           \* the generator: "running" | "finished" | "threw"
  tCancelled,     \* the client has gone away: the stream rejects writes
  tRejected,      \* a write has rejected
  tCloses,        \* the calls of writer.close()
  \* --- two requests in one isolate, each with its own service instances
  cStore,         \* the store both requests read: [matched, similar], per query
  cReq,           \* per request [entry, query, topK, pc, kw, sem, results, out];
                  \* pc is "idle" | "searching" | "llm" | "done"
  cLastMap,       \* the Map the latest fusion built
  cOverlap        \* a request was called while the other was suspended

params   == <<entry, query, topK, keywordWeight, semanticWeight, category, searchType>>
reqVars  == <<entry, query, topK, keywordWeight, semanticWeight, category, searchType,
              kw, sem, queryEmbedding, hyb, settled, rag, fragments, outcome, calls>>
fuseVars == <<fKeyword, fSemantic, fTopK, fKeywordWeight, fSemanticWeight, fOut, fPc>>
normVars == <<nIn, nOut, nPc>>
semVars  == <<sQuery, sChunks, sTopK, sMinSimilarity, sSimilar, sOut, sPc>>
fmtVars  == <<aAnswer, aSources, aOut, aPc>>
pureVars == <<fuseVars, normVars, semVars, fmtVars>>
batchVars == <<bTexts, bCalls, bIndex, bEmbeddings, bOutOfOrder, bOut, bPc>>
rateVars == <<rEnabled, rLimit, rCached, rPc, rCount, rCacheFailed, rStarted>>
setupVars == <<gInProgress, gCache, gCalls, gStarted>>
routeVars == <<tPc, tResponse, tEvents, tYielded, tGen, tCancelled, tRejected, tCloses>>
concVars == <<cStore, cReq, cLastMap, cOverlap>>
opVars   == <<batchVars, rateVars, setupVars, routeVars, concVars>>
vars     == <<reqVars, pureVars, opVars>>

NoPromise == [st |-> "none", results |-> <<>>, error |-> ""]
NoRag     == [st |-> "none", searchResults |-> <<>>, llm |-> "none", pulled |-> 0, cited |-> 0,
              arrived |-> <<>>, invocations |-> 0]
NoOutcome == [st |-> "none", value |-> <<>>, error |-> ""]

ReqIdle ==
  /\ entry = "none" /\ query = "" /\ topK = 0
  /\ keywordWeight = 0 /\ semanticWeight = 0
  /\ category = NoCategory /\ searchType = "none"
  /\ kw = NoPromise /\ sem = NoPromise /\ hyb = NoPromise
  /\ queryEmbedding = <<>>
  /\ settled = <<>> /\ rag = NoRag /\ fragments = <<>>
  /\ outcome = NoOutcome /\ calls = {}

FuseIdle ==
  /\ fKeyword = <<>> /\ fSemantic = <<>> /\ fTopK = 0
  /\ fKeywordWeight = 0 /\ fSemanticWeight = 0
  /\ fOut = <<>> /\ fPc = "idle"

NormIdle == nIn = <<>> /\ nOut = <<>> /\ nPc = "idle"

NoSimilar == [called |-> FALSE, threw |-> FALSE, value |-> <<>>]

FmtIdle == aAnswer = <<>> /\ aSources = <<>> /\ aOut = <<>> /\ aPc = "idle"

SemIdle ==
  /\ sQuery = <<>> /\ sChunks = <<>> /\ sTopK = 0 /\ sMinSimilarity = 0
  /\ sSimilar = NoSimilar /\ sOut = NoPromise /\ sPc = "idle"

PureIdle == FuseIdle /\ NormIdle /\ SemIdle /\ FmtIdle

BatchIdle ==
  /\ bTexts = <<>> /\ bCalls = <<>> /\ bIndex = 0 /\ bEmbeddings = <<>>
  /\ bOutOfOrder = FALSE /\ bOut = NoOutcome /\ bPc = "idle"

\* CACHE.get resolving with null.
NoValue == <<>>

RateIdle ==
  /\ rEnabled = FALSE /\ rLimit = 0 /\ rCached = NoValue
  /\ rPc = <<>> /\ rCount = <<>> /\ rCacheFailed = FALSE /\ rStarted = "idle"

SetupIdle ==
  /\ gInProgress = FALSE /\ gCache = <<>> /\ gCalls = <<>> /\ gStarted = "idle"

RouteIdle ==
  /\ tPc = "idle" /\ tResponse = "none" /\ tEvents = <<>> /\ tYielded = 0
  /\ tGen = "running" /\ tCancelled = FALSE /\ tRejected = FALSE /\ tCloses = 0

ConcIdle == cStore = <<>> /\ cReq = <<>> /\ cLastMap = <<>> /\ cOverlap = FALSE

OpsIdle == BatchIdle /\ RateIdle /\ SetupIdle /\ RouteIdle /\ ConcIdle

\* ============================================================ the request
\* The store behind the request model.
StorePapers == { PaperSeq[i] : i \in 1..Min(StoreSize, Len(PaperSeq)) }

Queries == {"", "transformers"}
Categories == {NoCategory, "cs.AI"}

\* Weight pairs the request model is called with (tenths).
RequestWeights == { <<5, 5>>, <<10, 0>> }

\* A combinator that resolves with the first search to resolve.
anyResolved(kwSt, semSt) == kwSt = "done" \/ semSt = "done"

\* Promise.all([keywordSearch, semanticSearch]) has resolved.
allResolved(kwSt, semSt) == kwSt = "done" /\ semSt = "done"

\* keywordSearch up to its first await: the validation, then the store call.
keywordSearchCall(q) ==
  IF isEmptyQuery(q)
  THEN [st |-> "failed", results |-> <<>>, error |-> EmptyQueryError]
  ELSE [st |-> "store", results |-> <<>>, error |-> ""]

\* semanticSearch up to its first await: the validation, then
\* generateEmbedding's own validation, then the embedding call.
semanticSearchCall(q) ==
  IF isEmptyQuery(q)
  THEN [st |-> "failed", results |-> <<>>, error |-> EmptyQueryError]
  ELSE IF isEmptyText(q)
  THEN [st |-> "failed", results |-> <<>>, error |-> EmptyTextError]
  ELSE [st |-> "embed", results |-> <<>>, error |-> ""]

\* The calls the two searches have in flight right after they are called.
callsInFlight(kwN, semN) ==
  (IF kwN.st = "store" THEN {CallSearchKeyword} ELSE {})
    \cup (IF semN.st = "embed" THEN {CallEmbed} ELSE {})

\* hybridSearch after one of its two searches moved: Promise.all rejects
\* with the first rejection, and resolves (and the fusion runs) once both
\* searches have resolved.
hybridAfter(kwN, semN, k0, wk, ws) ==
  IF hyb.st # "waiting" THEN hyb
  ELSE IF kwN.st = "failed" THEN [st |-> "failed", results |-> <<>>, error |-> kwN.error]
  ELSE IF semN.st = "failed" THEN [st |-> "failed", results |-> <<>>, error |-> semN.error]
  ELSE IF allResolved(kwN.st, semN.st)
  THEN [st |-> "done", results |-> fuse(kwN.results, semN.results, k0, wk, ws), error |-> ""]
  ELSE hyb

\* RAGService.performSearch: the promise of the search that serves the request.
performSearch(type, kwN, semN, hybN) ==
  CASE type = "keyword"  -> kwN
    [] type = "semantic" -> semN
    [] OTHER             -> hybN

\* 'I could not find relevant papers to answer your question. ...'
CannedAnswer == "I could not find relevant papers"

CannedResponse == [answer |-> <<Token(CannedAnswer, 0, "")>>, sources |-> <<>>]

CannedFragment == [kind |-> "canned", cites |-> FALSE, index |-> 0, arxiv_id |-> ""]

\* A results check that never finds the list empty.
noResultsNever(searchResults) == FALSE

\* if (searchResults.length === 0)
noResults(searchResults) == Len(searchResults) = 0

\* The synchronous continuation of the entry point e once its search has
\* moved to (kwN, semN, hybN): nothing while the search is pending; the
\* search entry points return or rethrow; the RAG entry points rethrow,
\* answer with the canned message, or go on to call the language model.
Continue(e, type, kwN, semN, hybN, awaiting, callsN) ==
  LET s       == performSearch(type, kwN, semN, hybN)
      failed  == awaiting /\ s.st = "failed"
      done    == awaiting /\ s.st = "done"
      isRag   == e \in RagEntries
      toLLM   == done /\ isRag /\ ~noResults(s.results)
      pending == [st |-> "pending", value |-> <<>>, error |-> ""]
  IN  /\ kw' = kwN /\ sem' = semN /\ hyb' = hybN
      /\ outcome' =
           IF failed THEN [st |-> "thrown", value |-> <<>>, error |-> s.error]
           ELSE IF done /\ ~isRag THEN [st |-> "returned", value |-> s.results, error |-> ""]
           ELSE IF done /\ e = "generateAnswer" /\ noResults(s.results)
           THEN [st |-> "returned", value |-> CannedResponse, error |-> ""]
           ELSE IF outcome.st = "none" THEN pending ELSE outcome
      /\ rag' =
           IF ~isRag THEN rag
           ELSE IF failed THEN [rag EXCEPT !.st = "done"]
           ELSE IF toLLM THEN [st |-> "llm", searchResults |-> s.results, llm |-> "none",
                               pulled |-> 0, cited |-> 0, arrived |-> <<>>,
                               invocations |-> rag.invocations + 1]
           ELSE IF done /\ e = "generateAnswer" THEN [rag EXCEPT !.st = "done"]
           ELSE IF done THEN [rag EXCEPT !.st = "finishing"]
           ELSE IF rag.st = "none" THEN [rag EXCEPT !.st = "searching"]
           ELSE rag
      /\ fragments' =
           IF done /\ e = "streamAnswer" /\ noResults(s.results)
           THEN Append(fragments, CannedFragment) ELSE fragments
      /\ calls' = IF toLLM THEN callsN \cup {CallLLM} ELSE callsN

\* The entry point is suspended on its search.
AwaitingSearch ==
  /\ outcome.st = "pending"
  /\ entry \in SearchEntries \/ rag.st = "searching"

Rejected(msg) == [st |-> "thrown", value |-> <<>>, error |-> msg]

\* The request leaves the function studies alone.
StudiesIdle == UNCHANGED <<pureVars, opVars>>

\* A step other than the completion of the embedding call.
Frame == queryEmbedding' = queryEmbedding /\ StudiesIdle

\* An entry point that threw in its own validation: nothing else has run.
RejectAtEntry ==
  /\ outcome' = Rejected(EmptyQueryError)
  /\ UNCHANGED <<kw, sem, hyb, settled, rag, fragments, calls>>

\* SearchService.keywordSearch({ query, limit, category })
keywordSearch(q, limit, cat) ==
  /\ entry = "none"
  /\ entry' = "keywordSearch" /\ query' = q /\ topK' = limit /\ category' = cat
  /\ keywordWeight' = 5 /\ semanticWeight' = 5 /\ searchType' = "keyword"
  /\ IF isEmptyQuery(q) THEN RejectAtEntry
     ELSE /\ settled' = settled
          /\ Continue("keywordSearch", "keyword", keywordSearchCall(q), sem, hyb, TRUE,
                      callsInFlight(keywordSearchCall(q), sem))
  /\ Frame

\* SearchService.semanticSearch({ query, topK })
semanticSearch(q, k0) ==
  /\ entry = "none"
  /\ entry' = "semanticSearch" /\ query' = q /\ topK' = k0 /\ category' = NoCategory
  /\ keywordWeight' = 5 /\ semanticWeight' = 5 /\ searchType' = "semantic"
  /\ IF isEmptyQuery(q) THEN RejectAtEntry
     ELSE /\ settled' = settled
          /\ Continue("semanticSearch", "semantic", kw, semanticSearchCall(q), hyb, TRUE,
                      callsInFlight(kw, semanticSearchCall(q)))
  /\ Frame

\* The three promises right after hybridSearch has called both searches.
hybridSearchCall(q, k0, wk, ws) ==
  LET kwN  == keywordSearchCall(q)
      semN == semanticSearchCall(q)
      hybN == IF kwN.st = "failed"
              THEN [st |-> "failed", results |-> <<>>, error |-> kwN.error]
              ELSE IF semN.st = "failed"
              THEN [st |-> "failed", results |-> <<>>, error |-> semN.error]
              ELSE [st |-> "waiting", results |-> <<>>, error |-> ""]
  IN  [kw |-> kwN, sem |-> semN, hyb |-> hybN]

\* The search performSearch starts for a search type.
searchCall(type, q, k0, wk, ws) ==
  CASE type = "keyword"  -> [kw |-> keywordSearchCall(q), sem |-> sem, hyb |-> hyb]
    [] type = "semantic" -> [kw |-> kw, sem |-> semanticSearchCall(q), hyb |-> hyb]
    [] OTHER             -> hybridSearchCall(q, k0, wk, ws)

\* SearchService.hybridSearch(query, topK, keywordWeight, semanticWeight)
hybridSearch(q, k0, wk, ws) ==
  /\ entry = "none"
  /\ entry' = "hybridSearch" /\ query' = q /\ topK' = k0 /\ category' = NoCategory
  /\ keywordWeight' = wk /\ semanticWeight' = ws /\ searchType' = "hybrid"
  /\ IF isEmptyQuery(q) THEN RejectAtEntry
     ELSE LET c == hybridSearchCall(q, k0, wk, ws)
          IN  /\ settled' = settled
              /\ Continue("hybridSearch", "hybrid", c.kw, c.sem, c.hyb, TRUE,
                          callsInFlight(c.kw, c.sem))
  /\ Frame

\* RAGService.generateAnswer(options)
generateAnswer(q, k0, type, wk, ws) ==
  /\ entry = "none"
  /\ entry' = "generateAnswer" /\ query' = q /\ topK' = k0 /\ category' = NoCategory
  /\ keywordWeight' = wk /\ semanticWeight' = ws /\ searchType' = type
  /\ IF isEmptyQuery(q) THEN RejectAtEntry
     ELSE LET c == searchCall(type, q, k0, wk, ws)
          IN  /\ settled' = settled
              /\ Continue("generateAnswer", type, c.kw, c.sem, c.hyb, TRUE,
                          callsInFlight(c.kw, c.sem))
  /\ Frame

\* RAGService.streamAnswer(options), from the first pull of the generator.
streamAnswer(q, k0, type, wk, ws) ==
  /\ entry = "none"
  /\ entry' = "streamAnswer" /\ query' = q /\ topK' = k0 /\ category' = NoCategory
  /\ keywordWeight' = wk /\ semanticWeight' = ws /\ searchType' = type
  /\ IF isEmptyQuery(q) THEN RejectAtEntry
     ELSE LET c == searchCall(type, q, k0, wk, ws)
          IN  /\ settled' = settled
              /\ Continue("streamAnswer", type, c.kw, c.sem, c.hyb, TRUE,
                          callsInFlight(c.kw, c.sem))
  /\ Frame

\* The limit keywordSearch was called with, and the topK of semanticSearch.
searchLimit == IF searchType = "hybrid" THEN topK * 2 ELSE topK

\* papers.filter(p => p.paper.category === category)
filterByCategory(papers, cat) ==
  IF cat = NoCategory THEN papers
  ELSE LET keep == { i \in 1..Len(papers) : papers[i].paper.category = cat }
           nth(n) == CHOOSE i \in keep : Cardinality({ j \in keep : j < i }) = n - 1
       IN  [n \in 1..Cardinality(keep) |-> papers[nth(n)]]

\* d1Client.searchKeyword resolves with the rows matching the query.
KeywordStoreReturns(matched) ==
  /\ kw.st = "store"
  /\ LET papers == searchKeyword(matched, searchLimit)
         kwN    == [st |-> "done", results |-> filterByCategory(papers, category), error |-> ""]
     IN  Continue(entry, searchType, kwN, sem,
                  hybridAfter(kwN, sem, topK, keywordWeight, semanticWeight),
                  AwaitingSearch, calls)
  /\ settled' = Append(settled, "keyword")
  /\ UNCHANGED params
  /\ Frame

\* d1Client.searchKeyword rejects; keywordSearch logs and rethrows.
KeywordStoreFails ==
  /\ kw.st = "store"
  /\ LET kwN == [st |-> "failed", results |-> <<>>, error |-> D1Failure]
     IN  Continue(entry, searchType, kwN, sem,
                  hybridAfter(kwN, sem, topK, keywordWeight, semanticWeight),
                  AwaitingSearch, calls)
  /\ settled' = Append(settled, "keyword")
  /\ UNCHANGED params
  /\ Frame

\* ai.run resolves for the query embedding: an array lets semanticSearch go
\* on to fetch the chunks, anything else makes generateEmbedding throw.
EmbedReturns(isArray, response) ==
  /\ sem.st = "embed"
  /\ queryEmbedding' = IF isArray THEN response ELSE queryEmbedding
  /\ LET semN == IF isArray THEN [sem EXCEPT !.st = "chunks"]
                 ELSE [st |-> "failed", results |-> <<>>, error |-> InvalidEmbeddingError]
     IN  Continue(entry, searchType, kw, semN,
                  hybridAfter(kw, semN, topK, keywordWeight, semanticWeight),
                  AwaitingSearch,
                  IF isArray THEN calls \cup {CallGetChunks} ELSE calls)
  /\ settled' = IF isArray THEN settled ELSE Append(settled, "semantic")
  /\ UNCHANGED params
  /\ StudiesIdle

\* ai.run rejects for the query embedding.
EmbedFails ==
  /\ sem.st = "embed"
  /\ LET semN == [st |-> "failed", results |-> <<>>, error |-> AIFailure]
     IN  Continue(entry, searchType, kw, semN,
                  hybridAfter(kw, semN, topK, keywordWeight, semanticWeight),
                  AwaitingSearch, calls)
  /\ settled' = Append(settled, "semantic")
  /\ UNCHANGED params
  /\ Frame

\* minSimilarity = 0.3, the default: neither hybridSearch nor performSearch
\* passes one.
DefaultMinSimilarity == 3

\* d1Client.getAllChunksWithEmbeddings resolves with the rows allChunks and
\* semanticSearch scores them, groups by paper, sorts and truncates, or
\* rethrows what was thrown on the way.
ChunkStoreReturns(allChunks) ==
  /\ sem.st = "chunks"
  /\ LET semN == semanticAfterChunks(queryEmbedding, allChunks, searchLimit,
                                     DefaultMinSimilarity)
     IN  Continue(entry, searchType, kw, semN,
                  hybridAfter(kw, semN, topK, keywordWeight, semanticWeight),
                  AwaitingSearch, calls)
  /\ settled' = Append(settled, "semantic")
  /\ UNCHANGED params
  /\ Frame

\* d1Client.getAllChunksWithEmbeddings rejects.
ChunkStoreFails ==
  /\ sem.st = "chunks"
  /\ LET semN == [st |-> "failed", results |-> <<>>, error |-> D1Failure]
     IN  Continue(entry, searchType, kw, semN,
                  hybridAfter(kw, semN, topK, keywordWeight, semanticWeight),
                  AwaitingSearch, calls)
  /\ settled' = Append(settled, "semantic")
  /\ UNCHANGED params
  /\ Frame

\* ---------------------------------------------------------- RAGService
\* What the language model can answer: response.result.response is a text
\* with or without the marker [1], or is not there (<<>>, which also stands
\* for the empty text: both are falsy).
LLMResponses ==
  { [response |-> <<Word, Marker(1), Word>>],
    [response |-> <<Word>>],
    [response |-> <<>>] }

\* 'Unable to generate answer from the provided context.'
UnableAnswer == "Unable to generate answer"

\* formatAnswerWithCitations appending the Sources section whatever the
\* answer contains.
formatAnswerAlwaysAppending(answer, sources) ==
  trim(answer) \o <<SourcesHeading>>
    \o [i \in 1..Len(sources) |-> CitationLine(i, sources[i].paper)]

\* formatAnswerWithCitations: the answer trimmed, and, when it does not
\* contain [1], the Sources section after it, one line per source.
formatAnswerWithCitations(answer, sources) ==
  LET formattedAnswer == trim(answer)
  IN  IF ~includes(formattedAnswer, Marker(1))
      THEN formattedAnswer \o <<SourcesHeading>>
             \o [i \in 1..Len(sources) |-> CitationLine(i, sources[i].paper)]
      ELSE formattedAnswer

\* sources: searchResults.map(result => ({ arxivId: result.paper.arxiv_id, ... }))
sourcesOf(searchResults) ==
  [i \in 1..Len(searchResults) |-> searchResults[i].paper.arxiv_id]

\* generateWithLLM: the model call resolves, generateAnswer returns.
LLMReturns(response) ==
  /\ entry = "generateAnswer" /\ rag.st = "llm"
  /\ LET answer == IF response.response # <<>>
                   THEN formatAnswerWithCitations(response.response, rag.searchResults)
                   ELSE <<Token(UnableAnswer, 0, "")>>
     IN  outcome' = [st |-> "returned",
                     value |-> [answer |-> answer, sources |-> sourcesOf(rag.searchResults)],
                     error |-> ""]
  /\ rag' = [rag EXCEPT !.st = "done",
                        !.llm = IF response.response # <<>> THEN "text" ELSE "malformed"]
  /\ UNCHANGED <<params, kw, sem, hyb, settled, fragments, calls>>
  /\ Frame

\* The model call rejects: generateWithLLM / streamLLMResponse rethrow.
LLMFails ==
  /\ rag.st = "llm"
  /\ outcome' = Rejected(AIFailure)
  /\ rag' = [rag EXCEPT !.st = "done"]
  /\ UNCHANGED <<params, kw, sem, hyb, settled, fragments, calls>>
  /\ Frame

\* yield '\n\nSources:\n'
SourcesFragment == [kind |-> "Sources:", cites |-> FALSE, index |-> 0, arxiv_id |-> ""]

\* The Sources header yielded only when no model fragment carried [1], as
\* the non-streaming path does.
withSourcesHeaderUnlessCited(yielded) ==
  IF \E i \in 1..Len(yielded) : yielded[i].cites THEN yielded
  ELSE Append(yielded, SourcesFragment)

\* What has been yielded once `yield '\n\nSources:\n'` has run.
withSourcesHeader(yielded) == Append(yielded, SourcesFragment)

\* streamLLMResponse: the model call resolves; an async iterable is then
\* read fragment by fragment, anything else goes straight to the citations.
LLMStreamOpens(iterable) ==
  /\ entry = "streamAnswer" /\ rag.st = "llm"
  /\ rag' = [rag EXCEPT !.st = IF iterable THEN "streaming" ELSE "citing"]
  /\ fragments' = IF iterable THEN fragments ELSE withSourcesHeader(fragments)
  /\ UNCHANGED <<params, kw, sem, hyb, settled, outcome, calls>>
  /\ Frame

\* A generator that keeps the model's fragment to itself instead of
\* handing it to the consumer.
yieldChunkBuffered(yielded, fragment) == yielded

\* yield chunk.response: the fragment is with the consumer before the
\* generator pulls the next chunk.
yieldChunk(yielded, fragment) == Append(yielded, fragment)

\* for await (const chunk of response): a chunk with text is yielded, one
\* without is skipped.
StreamChunk(hasText, cites) ==
  /\ rag.st = "streaming" /\ rag.pulled < MaxChunks
  /\ rag' = [rag EXCEPT !.pulled = @ + 1, !.arrived = Append(@, hasText)]
  /\ fragments' = IF hasText
                  THEN yieldChunk(fragments, [kind |-> "model", cites |-> cites,
                                              index |-> rag.pulled + 1, arxiv_id |-> ""])
                  ELSE fragments
  /\ UNCHANGED <<params, kw, sem, hyb, settled, outcome, calls>>
  /\ Frame

\* The model's sequence completes: the Sources header is yielded.
StreamEnds ==
  /\ rag.st = "streaming"
  /\ rag' = [rag EXCEPT !.st = "citing"]
  /\ fragments' = withSourcesHeader(fragments)
  /\ UNCHANGED <<params, kw, sem, hyb, settled, outcome, calls>>
  /\ Frame

\* The model's sequence throws while it is read.
StreamFails ==
  /\ rag.st = "streaming"
  /\ outcome' = Rejected(AIFailure)
  /\ rag' = [rag EXCEPT !.st = "done"]
  /\ UNCHANGED <<params, kw, sem, hyb, settled, fragments, calls>>
  /\ Frame

\* for (let i = 0; i < sources.length; i++) yield `[${i + 1}] ...`
StreamCite ==
  /\ rag.st = "citing" /\ rag.cited < Len(rag.searchResults)
  /\ rag' = [rag EXCEPT !.cited = @ + 1]
  /\ fragments' = Append(fragments,
                         [kind |-> "citation", cites |-> FALSE, index |-> rag.cited + 1,
                          arxiv_id |-> rag.searchResults[rag.cited + 1].paper.arxiv_id])
  /\ UNCHANGED <<params, kw, sem, hyb, settled, outcome, calls>>
  /\ Frame

\* The generator returns after its last yield.
GeneratorReturns ==
  /\ entry = "streamAnswer"
  /\ \/ rag.st = "finishing"
     \/ rag.st = "citing" /\ rag.cited = Len(rag.searchResults)
  /\ rag' = [rag EXCEPT !.st = "done"]
  /\ outcome' = [st |-> "returned", value |-> <<>>, error |-> ""]
  /\ UNCHANGED <<params, kw, sem, hyb, settled, fragments, calls>>
  /\ Frame

\* Embeddings of the model (see Sqrt): two dimensions, and one vector of
\* three.
Embeddings == { <<1, 0>>, <<3, 4>>, <<4, 3>>, <<1, 0, 0>> }

\* What ai.run gave for the query.
QueryEmbeddings == { <<1, 0>>, <<0, 1>> }

\* A blob cut short while it was written: JSON.parse does not accept it.
CorruptBlob == <<"[", "1", ",">>

\* What the embedding column of a row can hold: nothing, the text
\* insertEmbedding wrote for an embedding, or a text that does not parse.
Blobs == {NoBlob, CorruptBlob} \cup { JSONstringify(e) : e \in Embeddings }

ChunkId(i) == <<"c1", "c2", "c3", "c4", "c5">>[i]

\* The tables getAllChunksWithEmbeddings can return with at most n rows over
\* the papers P and the blobs B: chunk ids are unique, and the rows of one
\* paper carry one paperId, which no other paper carries.
ChunkTables(P, B, n) ==
  UNION { { [i \in 1..m |-> [chunkId |-> ChunkId(i), paperId |-> ps[i].arxiv_id,
                              paper |-> ps[i], embedding |-> bs[i]]]
            : ps \in [1..m -> P], bs \in [1..m -> B] }
          : m \in 0..n }

\* The embedding the request model gets for its query, and the blobs of its
\* store.
RequestEmbeddings == { <<1, 0>> }
RequestBlobs == {NoBlob, CorruptBlob}
                  \cup { JSONstringify(e) : e \in { <<1, 0>>, <<3, 4>>, <<1, 0, 0>> } }

\* The paper the i-th chunk row of the request model's store belongs to: the
\* first row to the first paper, the next two to the second, and so on.
RequestPaperOfRow(i) == PaperSeq[((i \div 2) % Cardinality(StorePapers)) + 1]

\* The tables getAllChunksWithEmbeddings can return in the request model.
RequestChunkTables ==
  UNION { { [i \in 1..m |-> [chunkId |-> ChunkId(i),
                              paperId |-> RequestPaperOfRow(i).arxiv_id,
                              paper |-> RequestPaperOfRow(i), embedding |-> bs[i]]]
            : bs \in [1..m -> RequestBlobs] }
          : m \in 0..MaxRequestRows }

SearchTypes == {"keyword", "semantic", "hybrid"}

Init == ReqIdle /\ PureIdle /\ OpsIdle

Call ==
  \/ \E q \in Queries, limit \in 1..MaxTopK, cat \in Categories : keywordSearch(q, limit, cat)
  \/ \E q \in Queries, k0 \in 1..MaxTopK : semanticSearch(q, k0)
  \/ \E q \in Queries, k0 \in 1..MaxTopK, w \in RequestWeights : hybridSearch(q, k0, w[1], w[2])
  \/ \E q \in Queries, k0 \in 1..MaxTopK, type \in SearchTypes, w \in RequestWeights :
       generateAnswer(q, k0, type, w[1], w[2])
  \/ \E q \in Queries, k0 \in 1..MaxTopK, type \in SearchTypes, w \in RequestWeights :
       streamAnswer(q, k0, type, w[1], w[2])

Complete ==
  \/ \E matched \in SUBSET StorePapers : KeywordStoreReturns(matched)
  \/ KeywordStoreFails
  \/ \E isArray \in BOOLEAN, response \in RequestEmbeddings : EmbedReturns(isArray, response)
  \/ EmbedFails
  \/ \E allChunks \in RequestChunkTables : ChunkStoreReturns(allChunks)
  \/ ChunkStoreFails
  \/ \E response \in LLMResponses : LLMReturns(response)
  \/ LLMFails
  \/ \E iterable \in BOOLEAN : LLMStreamOpens(iterable)
  \/ \E hasText \in BOOLEAN, cites \in BOOLEAN : StreamChunk(hasText, hasText /\ cites)
  \/ StreamEnds
  \/ StreamFails
  \/ StreamCite
  \/ GeneratorReturns

Next == Call \/ Complete

Spec == Init /\ [][Next]_vars

\* ------------------------------------------ the fusion as a pure function
FuseInit ==
  /\ ReqIdle /\ NormIdle /\ SemIdle /\ FmtIdle /\ OpsIdle
  /\ fTopK \in 1..MaxTopK
  /\ fKeyword \in KeywordLists(Papers, fTopK * 2)
  /\ fSemantic \in SemanticLists(Papers, fTopK * 2)
  /\ fKeywordWeight \in KeywordWeights
  /\ fSemanticWeight \in SemanticWeights
  /\ fOut = <<>>
  /\ fPc = "ready"

Fuse ==
  /\ fPc = "ready"
  /\ fOut' = fuse(fKeyword, fSemantic, fTopK, fKeywordWeight, fSemanticWeight)
  /\ fPc' = "fused"
  /\ UNCHANGED <<fKeyword, fSemantic, fTopK, fKeywordWeight, fSemanticWeight>>
  /\ UNCHANGED <<reqVars, normVars, semVars, fmtVars, opVars>>

FuseNext == Fuse

FuseSpec == FuseInit /\ [][FuseNext]_vars

\* ------------------------------------- normalizeScores as a pure function
\* Raw scores a list handed to normalizeScores can carry (tenths).
NormScores == {-2, 0, 3, 5}

NormInputs ==
  UNION { { [i \in 1..m |-> [paper |-> PaperSeq[((i - 1) % Len(PaperSeq)) + 1],
                             score |-> f[i], relevance |-> "keyword"]]
            : f \in [1..m -> NormScores] }
          : m \in 0..MaxNormLen }

NormInit ==
  /\ ReqIdle /\ FuseIdle /\ SemIdle /\ FmtIdle /\ OpsIdle
  /\ nIn \in NormInputs
  /\ nOut = <<>>
  /\ nPc = "ready"

Normalize ==
  /\ nPc = "ready"
  /\ nOut' = normalizeScores(nIn)
  /\ nPc' = "normalized"
  /\ UNCHANGED <<nIn, reqVars, fuseVars, semVars, fmtVars, opVars>>

NormNext == Normalize

NormSpec == NormInit /\ [][NormNext]_vars

\* -------------------------- formatAnswerWithCitations as a pure function
RawTokens == {Word, Space, Marker(1), Marker(2), SourcesHeading}

\* Model outputs of at most n tokens.
RawAnswers(n) == UNION { [1..m -> RawTokens] : m \in 0..n }

\* Source lists handed over: search results in rank order.
SourceLists ==
  { [i \in 1..Len(ps) |-> [paper |-> ps[i], score |-> 5]] : ps \in DistinctSeqs(Papers, 2) }

FormatInit ==
  /\ ReqIdle /\ FuseIdle /\ NormIdle /\ SemIdle /\ OpsIdle
  /\ aAnswer \in RawAnswers(MaxAnswerLen)
  /\ aSources \in SourceLists
  /\ aOut = <<>>
  /\ aPc = "ready"

Format ==
  /\ aPc = "ready"
  /\ aOut' = formatAnswerWithCitations(aAnswer, aSources)
  /\ aPc' = "formatted"
  /\ UNCHANGED <<aAnswer, aSources, reqVars, fuseVars, normVars, semVars, opVars>>

FormatNext == Format

FormatSpec == FormatInit /\ [][FormatNext]_vars

\* ------------------------------------- semanticSearch as a pure function
\* Thresholds a caller passes (tenths); 3 is the default 0.3.
MinSimilarities == {3, 7}

SemPapers == { PaperSeq[1], PaperSeq[3] }

SemInit ==
  /\ ReqIdle /\ FuseIdle /\ NormIdle /\ FmtIdle /\ OpsIdle
  /\ sQuery \in QueryEmbeddings
  /\ sChunks \in ChunkTables(SemPapers, Blobs, MaxRows)
  /\ sTopK \in 1..MaxTopK
  /\ sMinSimilarity \in MinSimilarities
  /\ sSimilar = NoSimilar /\ sOut = NoPromise
  /\ sPc = "ready"

\* semanticSearch once the query embedding and the rows are there.
SemanticScore ==
  /\ sPc = "ready"
  /\ sSimilar' = (IF Len(sChunks) = 0 THEN NoSimilar
                  ELSE similarOf(sQuery, sChunks, sTopK, sMinSimilarity))
  /\ sOut' = semanticAfterChunks(sQuery, sChunks, sTopK, sMinSimilarity)
  /\ sPc' = "searched"
  /\ UNCHANGED <<sQuery, sChunks, sTopK, sMinSimilarity, reqVars, fuseVars, normVars, fmtVars,
                 opVars>>

SemNext == SemanticScore

SemSpec == SemInit /\ [][SemNext]_vars

\* ----------------------------------------------- properties of the fusion
\* Zero-based rank of the paper in a result list, -1 when it is absent.
RankIn(list, paper) ==
  IF \E i \in 1..Len(list) : list[i].paper = paper
  THEN (CHOOSE i \in 1..Len(list) : list[i].paper = paper) - 1
  ELSE -1

\* weight / (60 + rank + 1) for the list the paper is in, nothing otherwise.
Contribution(list, paper, weight) ==
  IF RankIn(list, paper) >= 0
  THEN (RRFDen \div (60 + RankIn(list, paper) + 1)) * weight
  ELSE 0

ExpectedScore(paper) ==
  Contribution(fKeyword, paper, fKeywordWeight) + Contribution(fSemantic, paper, fSemanticWeight)

InBothLists(paper) == RankIn(fKeyword, paper) >= 0 /\ RankIn(fSemantic, paper) >= 0

\* The map combinedScores of the fusion under study, and its full ranking.
fCombined == combinedScores(fKeyword, fSemantic, fKeywordWeight, fSemanticWeight)

Ranking(wk, ws) ==
  sortByScoreDesc(combinedScores(fKeyword, fSemantic, wk, ws))

\* C2: the fused score of every returned paper is the sum, over the lists
\* the paper is in, of list_weight / (60 + rank + 1), and a list the paper
\* is absent from gives it nothing.
C2_FusedScoreIsRankSum ==
  fPc = "fused" =>
    \A i \in 1..Len(fOut) : fOut[i].score = ExpectedScore(fOut[i].paper)

\* C3 (as amended): with both weights 0.5, the paper at rank 0 of both lists
\* is returned first with fused score exactly 0.5/61 + 0.5/61 = 1/61.
C3_RankZeroInBothScoresOneOver61 ==
  ( /\ fPc = "fused" /\ fKeywordWeight = 5 /\ fSemanticWeight = 5
    /\ Len(fKeyword) > 0 /\ Len(fSemantic) > 0
    /\ fKeyword[1].paper = fSemantic[1].paper )
  => /\ Len(fOut) > 0
     /\ fOut[1].paper = fKeyword[1].paper
     /\ fOut[1].score * 61 = ScoreOne

\* C3 (as stated): that score is exactly 1/61 + 1/61 = 2/61.
C3_RankZeroInBothScoresTwoOver61 ==
  ( /\ fPc = "fused" /\ fKeywordWeight = 5 /\ fSemanticWeight = 5
    /\ Len(fKeyword) > 0 /\ Len(fSemantic) > 0
    /\ fKeyword[1].paper = fSemantic[1].paper )
  => /\ Len(fOut) > 0
     /\ fOut[1].paper = fKeyword[1].paper
     /\ fOut[1].score * 61 = 2 * ScoreOne

C3_Witness ==
  /\ fPc = "fused" /\ fKeywordWeight = 5 /\ fSemanticWeight = 5
  /\ Len(fKeyword) > 1 /\ Len(fSemantic) > 1
  /\ fKeyword[1].paper = fSemantic[1].paper
  /\ fKeyword[2].paper # fSemantic[2].paper

\* C4: a paper whose external identifier (arxiv_id) is in both lists is
\* never returned twice, and where it is returned its score is the sum of
\* its keyword contribution and its semantic contribution.
C4_PaperInBothListsOnceWithSum ==
  fPc = "fused" =>
    \A p \in Papers :
      InBothLists(p) =>
        /\ Cardinality({ i \in 1..Len(fOut) : fOut[i].paper.arxiv_id = p.arxiv_id }) <= 1
        /\ \A i \in 1..Len(fOut) :
             fOut[i].paper.arxiv_id = p.arxiv_id => fOut[i].score = ExpectedScore(p)

\* C5: rows of distinct papers that lack the id never get the same bucket
\* key, within one list and across the two lists.
C5_UnidentifiedRowsNeverShareABucket ==
  fPc = "fused" =>
    LET rows == { <<fKeyword[i], i - 1>> : i \in 1..Len(fKeyword) }
                  \cup { <<fSemantic[i], i - 1>> : i \in 1..Len(fSemantic) }
    IN  \A r, q \in rows :
          ( /\ r[1].paper.id = NoId /\ q[1].paper.id = NoId
            /\ r[1].paper # q[1].paper )
          => paperIdOf(r[1], r[2]) # paperIdOf(q[1], q[2])

\* Position of the paper's first bucket in a ranking (Len + 1 when absent).
PositionIn(ranking, paper) ==
  IF \E i \in 1..Len(ranking) : ranking[i].paper = paper
  THEN CHOOSE i \in 1..Len(ranking) :
         /\ ranking[i].paper = paper
         /\ \A j \in 1..(i - 1) : ranking[j].paper # paper
  ELSE Len(ranking) + 1

\* Amounts moved from semanticWeight to keywordWeight (tenths).
Deltas == {5}

OnlyInKeywordList(paper) == RankIn(fKeyword, paper) >= 0 /\ RankIn(fSemantic, paper) < 0

\* C6: moving d > 0 from semanticWeight to keywordWeight (both staying
\* non-negative) never moves a paper that is only in the keyword list to a
\* worse position of the fused ranking.
C6_KeywordOnlyPaperNeverRanksWorse ==
  fPc = "fused" =>
    \A d \in Deltas :
      fSemanticWeight - d >= 0 =>
        \A p \in Papers :
          OnlyInKeywordList(p) =>
            PositionIn(Ranking(fKeywordWeight + d, fSemanticWeight - d), p)
              <= PositionIn(Ranking(fKeywordWeight, fSemanticWeight), p)

\* The same results with every raw score replaced by one value.
FlatScores(list) == [i \in 1..Len(list) |-> [list[i] EXCEPT !.score = 1]]

\* C7: the returned papers, their order and their fused scores depend on
\* the order of the two lists only, not on the raw scores of their results.
C7_RankBasedOnly ==
  fPc = "fused" =>
    fOut = fuse(FlatScores(fKeyword), FlatScores(fSemantic), fTopK,
                fKeywordWeight, fSemanticWeight)

C7_Witness ==
  /\ fPc = "fused" /\ Len(fOut) > 1
  /\ Len(fKeyword) > 0 /\ Len(fSemantic) > 1 /\ fSemantic[1].score > fSemantic[2].score
  /\ fSemantic[1].score > fKeyword[1].score

\* C8: at most topK results, by fused score non-increasing, and no bucket
\* left out scores strictly more than a returned one.
C8_TopKByFusedScore ==
  fPc = "fused" =>
    /\ Len(fOut) = Min(fTopK, Len(fCombined))
    /\ \A i \in 1..Len(fOut) : \A j \in 1..Len(fOut) :
         i < j => fOut[i].score >= fOut[j].score
    /\ \A i \in 1..Len(fOut) :
         \E b \in 1..Len(fCombined) :
           fCombined[b].paper = fOut[i].paper /\ fCombined[b].score = fOut[i].score
    /\ \A b \in 1..Len(fCombined) :
         (\E i \in 1..Len(fOut) : fCombined[b].score > fOut[i].score)
         => \E i \in 1..Len(fOut) :
              fOut[i].paper = fCombined[b].paper /\ fOut[i].score = fCombined[b].score

C8_Witness ==
  /\ fPc = "fused" /\ Len(fCombined) > fTopK
  /\ fCombined[1].score < fOut[1].score
  /\ \E b \in 1..Len(fCombined) : fCombined[b].score < fOut[Len(fOut)].score

\* ------------------------------------------------ properties of a request
\* C1: the fusion runs only after both the keyword search and the semantic
\* search have resolved, in every interleaving, and what hybridSearch
\* resolves with is the fusion of the two complete lists, whichever search
\* settled first.
C1_FusionWaitsForBothSearches ==
  /\ hyb.st = "done" =>
       /\ kw.st = "done" /\ sem.st = "done"
       /\ hyb.results = fuse(kw.results, sem.results, topK, keywordWeight, semanticWeight)
  /\ hyb.st # "done" => hyb.results = <<>>
  /\ (outcome.st = "returned" /\ entry = "hybridSearch") =>
       /\ kw.st = "done" /\ sem.st = "done"
       /\ outcome.value = fuse(kw.results, sem.results, topK, keywordWeight, semanticWeight)

C1_Witness ==
  /\ entry = "hybridSearch" /\ outcome.st = "returned"
  /\ settled = <<"semantic", "keyword">>
  /\ Len(kw.results) > 0 /\ Len(sem.results) > 0
  /\ kw.results[1].paper # sem.results[1].paper

\* C10: each of the five entry points rejects the empty query with the same
\* error, and has then called neither the store nor a model.
C10_EmptyQueryRejectedBeforeAnyCall ==
  (entry # "none" /\ query = "") =>
    /\ outcome.st = "thrown" /\ outcome.error = EmptyQueryError
    /\ calls = {}
    /\ kw.st = "none" /\ sem.st = "none" /\ hyb.st = "none" /\ rag.st = "none"
    /\ fragments = <<>>

C10_Witness ==
  /\ entry = "streamAnswer" /\ query = "" /\ searchType = "hybrid"
  /\ outcome.st = "thrown"

\* ----------------------------------------- properties of normalizeScores
\* C9: normalizeScores keeps the length and the order of a list; a
\* non-empty list whose maximum is positive gets maximum exactly 1, one
\* whose maximum is 0 gets all scores 0, and the empty list comes back as
\* it is.
C9_NormalizedMaximumIsOne ==
  nPc = "normalized" =>
    /\ Len(nOut) = Len(nIn)
    /\ \A i \in 1..Len(nIn) :
         nOut[i].paper = nIn[i].paper /\ nOut[i].relevance = nIn[i].relevance
    /\ Len(nIn) = 0 => nOut = nIn
    /\ Len(nIn) > 0 =>
         LET m == MaxOf({ nIn[i].score : i \in 1..Len(nIn) })
         IN  /\ m > 0 =>
                  /\ \E i \in 1..Len(nOut) : nOut[i].score = [num |-> 1, den |-> 1]
                  /\ \A i \in 1..Len(nOut) : nOut[i].score.num <= nOut[i].score.den
             /\ m = 0 => \A i \in 1..Len(nOut) : nOut[i].score = [num |-> 0, den |-> 1]

C9_Witness ==
  /\ nPc = "normalized" /\ Len(nIn) = 3
  /\ nIn[1].score = 3 /\ nIn[2].score = 5 /\ nIn[3].score = 0
  /\ nOut[1].score = [num |-> 3, den |-> 5]

\* ------------------------------------------ properties of semanticSearch
\* The sum of the scores of a sequence of scored items.
RECURSIVE SumScores(_)
SumScores(seq) == IF Len(seq) = 0 THEN 0 ELSE seq[1].score + SumScores(Tail(seq))

\* The rows under study that carry a blob, and those whose blob parses.
sEmbedded == SelectSeq(sChunks, LAMBDA c : c.embedding # NoBlob)
sParsable == SelectSeq(sEmbedded, LAMBDA c : ~JSONparse(c.embedding).threw)

\* The embedding stored for a chunk id, and its similarity to the query.
EmbeddingOfChunk(id) == JSONparse(findChunk(sChunks, id).embedding).value
SimilarityOfChunk(id) == cosineSimilarity(sQuery, EmbeddingOfChunk(id)).value

PaperOfChunk(id) == findChunk(sChunks, id).paper

\* The chunks of a paper that findSimilar retained, and all its chunks at or
\* above the threshold.
RetainedOf(paper) == SelectSeq(sSimilar.value, LAMBDA s : PaperOfChunk(s.id) = paper)
PassingOf(paper) ==
  SelectSeq([i \in 1..Len(sParsable) |->
               [id |-> sParsable[i].chunkId, paper |-> sParsable[i].paper,
                score |-> SimilarityOfChunk(sParsable[i].chunkId)]],
            LAMBDA s : s.paper = paper /\ s.score >= sMinSimilarity)

sFindSimilarReturned == sPc = "searched" /\ sSimilar.called /\ ~sSimilar.threw

\* C11: findSimilar never returns a candidate whose cosine similarity to the
\* query is below minSimilarity; what it returns carries those similarities,
\* is sorted by score non-increasing and has at most topK entries.
C11_ThresholdGate ==
  sFindSimilarReturned =>
    /\ \A i \in 1..Len(sSimilar.value) :
         /\ SimilarityOfChunk(sSimilar.value[i].id) >= sMinSimilarity
         /\ sSimilar.value[i].score = SimilarityOfChunk(sSimilar.value[i].id)
    /\ \A i \in 1..Len(sSimilar.value) : \A j \in 1..Len(sSimilar.value) :
         i < j => sSimilar.value[i].score >= sSimilar.value[j].score
    /\ Len(sSimilar.value) <= sTopK

C11_Witness ==
  /\ sFindSimilarReturned
  /\ Len(sSimilar.value) = sTopK /\ sTopK > 1
  /\ \E i \in 1..Len(sEmbedded) :
       /\ SimilarityOfChunk(sEmbedded[i].chunkId) < sMinSimilarity
       /\ \A j \in 1..Len(sSimilar.value) : sSimilar.value[j].id # sEmbedded[i].chunkId

\* C12: cosineSimilarity fails on vectors of different lengths, and when one
\* candidate embedding differs in length from the query embedding
\* findSimilar fails and semanticSearch fails, returning no result.
C12_DimensionMismatchFails ==
  /\ \A a \in QueryEmbeddings : \A b \in Embeddings :
       Len(a) # Len(b) => cosineSimilarity(a, b).threw
  /\ (/\ sPc = "searched"
      /\ \E i \in 1..Len(sParsable) :
           Len(JSONparse(sParsable[i].embedding).value) # Len(sQuery))
     => /\ sOut.st = "failed" /\ sOut.results = <<>>
        /\ sSimilar.called => sSimilar.threw /\ sSimilar.value = <<>>

C12_Witness ==
  /\ sPc = "searched" /\ sSimilar.called /\ sSimilar.threw
  /\ sOut.st = "failed" /\ sOut.error = DimensionError
  /\ \E i \in 1..Len(sParsable) :
       /\ Len(JSONparse(sParsable[i].embedding).value) = Len(sQuery)
       /\ SimilarityOfChunk(sParsable[i].chunkId) >= sMinSimilarity

\* C13: a paper with retained chunks appears exactly once in the result of
\* semanticSearch, and its score is the sum of the similarities of its
\* retained chunks.
C13_PaperScoreIsSumOfRetainedChunks ==
  (sPc = "searched" /\ sOut.st = "done") =>
    /\ \A i \in 1..Len(sSimilar.value) :
         Cardinality({ j \in 1..Len(sOut.results) :
                         sOut.results[j].paper = PaperOfChunk(sSimilar.value[i].id) }) = 1
    /\ \A j \in 1..Len(sOut.results) :
         sOut.results[j].score = SumScores(RetainedOf(sOut.results[j].paper))

C13_Witness ==
  /\ sPc = "searched" /\ sOut.st = "done"
  /\ \E j \in 1..Len(sOut.results) :
       /\ Len(RetainedOf(sOut.results[j].paper)) = 2
       /\ sOut.results[j].score = 14
       /\ \A i \in 1..Len(sSimilar.value) : sSimilar.value[i].score < 14

\* C14: each paper semanticSearch returns is scored with the sum of the
\* similarities of all of its chunks at or above minSimilarity.
C14_PaperScoreIsSumOfAllPassingChunks ==
  (sPc = "searched" /\ sOut.st = "done") =>
    \A j \in 1..Len(sOut.results) :
      sOut.results[j].score = SumScores(PassingOf(sOut.results[j].paper))

\* C15: a row whose blob does not deserialize is skipped: semanticSearch
\* still resolves, with the results computed from the remaining rows.
C15_UndeserializableRowIsSkipped ==
  (/\ sPc = "searched"
   /\ \E i \in 1..Len(sEmbedded) : JSONparse(sEmbedded[i].embedding).threw)
  => /\ sOut.st = "done"
     /\ sOut.results =
          semanticAfterChunks(sQuery,
                              SelectSeq(sChunks, LAMBDA c : ~JSONparse(c.embedding).threw
                                                            \/ c.embedding = NoBlob),
                              sTopK, sMinSimilarity).results

\* C16: with no chunk rows, or only rows without an embedding, semanticSearch
\* resolves with the empty list.
C16_NoEmbeddedChunksGivesEmptyList ==
  (sPc = "searched" /\ Len(sEmbedded) = 0) =>
    sOut.st = "done" /\ sOut.results = <<>> /\ sOut.error = ""

C16_Witness ==
  /\ sPc = "searched" /\ Len(sChunks) > 1 /\ Len(sEmbedded) = 0
  /\ sOut.st = "done"

\* --------------------------------------------- properties of the RAG paths
\* The search that serves the request, as performSearch sees it.
selectedSearch == performSearch(searchType, kw, sem, hyb)

\* C17: when the selected search resolves with no result, generateAnswer
\* returns the canned answer with no sources, and the language model has
\* not been called.
C17_ZeroResultsGiveCannedAnswer ==
  (entry = "generateAnswer" /\ selectedSearch.st = "done" /\ Len(selectedSearch.results) = 0)
  => /\ outcome.st = "returned"
     /\ outcome.value.answer = <<Token(CannedAnswer, 0, "")>>
     /\ outcome.value.sources = <<>>
     /\ CallLLM \notin calls /\ rag.llm = "none"

C17_Witness ==
  /\ entry = "generateAnswer" /\ searchType = "hybrid"
  /\ hyb.st = "done" /\ Len(hyb.results) = 0
  /\ outcome.st = "returned" /\ outcome.value = CannedResponse

\* How many times a token occurs in a text.
Occurrences(text, token) == Cardinality({ i \in 1..Len(text) : text[i] = token })

\* The text ends with a Sources section listing every source, numbered from
\* 1 in the order of the list, and before it is exactly the text given.
EndsWithSourcesSection(text, before, sources) ==
  LET h == Len(before) + 1
  IN  /\ Len(text) = h + Len(sources)
      /\ SubSeq(text, 1, h - 1) = before
      /\ text[h] = SourcesHeading
      /\ \A i \in 1..Len(sources) :
           text[h + i] = Token("citation", i, sources[i].paper.arxiv_id)

\* The raw output without its leading and trailing white space.
Trimmed(raw) ==
  LET solid == { i \in 1..Len(raw) : raw[i] # Space }
  IN  IF solid = {} THEN <<>>
      ELSE SubSeq(raw, CHOOSE i \in solid : \A j \in solid : i <= j,
                       CHOOSE i \in solid : \A j \in solid : j <= i)

\* C18 as stated: a raw output without [1] and a non-empty source list give
\* an answer with exactly one 'Sources:' section, which lists every source
\* numbered [1]..[n] in rank order; a raw output with [1] gets nothing
\* appended.
C18_ExactlyOneSourcesSection ==
  aPc = "formatted" =>
    /\ (~includes(aAnswer, Marker(1)) /\ Len(aSources) > 0) =>
         /\ Occurrences(aOut, SourcesHeading) = 1
         /\ EndsWithSourcesSection(aOut, Trimmed(aAnswer), aSources)
    /\ includes(aAnswer, Marker(1)) => aOut = Trimmed(aAnswer)

\* C18 as amended: a raw output without [1] and a non-empty source list give
\* the trimmed raw output followed by exactly one appended 'Sources:'
\* section, which lists every source numbered [1]..[n] in rank order, so
\* that the answer has one 'Sources:' heading more than the raw output; a
\* raw output with [1] gets nothing appended.
C18_OneSourcesSectionAppended ==
  aPc = "formatted" =>
    /\ (~includes(aAnswer, Marker(1)) /\ Len(aSources) > 0) =>
         /\ Occurrences(aOut, SourcesHeading) = Occurrences(aAnswer, SourcesHeading) + 1
         /\ EndsWithSourcesSection(aOut, Trimmed(aAnswer), aSources)
    /\ includes(aAnswer, Marker(1)) => aOut = Trimmed(aAnswer)

C18_Witness ==
  /\ aPc = "formatted"
  /\ ~includes(aAnswer, Marker(1)) /\ includes(aAnswer, Marker(2))
  /\ Len(aSources) = 2 /\ aOut[Len(aOut)].index = 2
  /\ Occurrences(aOut, SourcesHeading) = 1

\* C19: when the model call returns a response without answer text for a
\* non-empty result set, generateAnswer fails instead of returning an answer.
C19_MalformedModelResponseFails ==
  (entry = "generateAnswer" /\ rag.llm = "malformed") =>
    outcome.st = "thrown"

\* The stream of a request with results, after the model's output completed.
streamCompleted ==
  /\ entry = "streamAnswer" /\ Len(rag.searchResults) > 0
  /\ rag.st = "citing" \/ (rag.st = "done" /\ outcome.st = "returned")

\* C20: once the model's output has completed, the fragments hold a
\* 'Sources:' fragment that comes after every model fragment, whether or not
\* a model fragment carried [1].
C20_StreamEndsWithSources ==
  streamCompleted =>
    \E i \in 1..Len(fragments) :
      /\ fragments[i].kind = "Sources:"
      /\ \A j \in 1..Len(fragments) : fragments[j].kind = "model" => j < i

C20_Witness ==
  /\ streamCompleted /\ outcome.st = "returned"
  /\ \E j \in 1..Len(fragments) : fragments[j].kind = "model" /\ fragments[j].cites
  /\ fragments[Len(fragments)].kind = "citation"

\* ------------------------------------------ properties of the streaming path
\* C21: when the selected search resolves with no result, streamAnswer has
\* yielded the canned message and nothing else, the generator is at its
\* return or has returned, and the language model has not been called.
C21_ZeroResultsStreamOneCannedFragment ==
  (entry = "streamAnswer" /\ selectedSearch.st = "done" /\ Len(selectedSearch.results) = 0)
  => /\ fragments = <<CannedFragment>>
     /\ CallLLM \notin calls /\ rag.invocations = 0
     /\ rag.st \in {"finishing", "done"}
     /\ rag.st = "done" => outcome.st = "returned"

C21_Witness ==
  /\ entry = "streamAnswer" /\ selectedSearch.st = "done"
  /\ Len(selectedSearch.results) = 0
  /\ rag.st = "done" /\ outcome.st = "returned" /\ fragments = <<CannedFragment>>

\* The fragments of the model among the fragments yielded.
ModelFragments == SelectSeq(fragments, LAMBDA f : f.kind = "model")

\* The chunks pulled from the model's sequence that carried text.
TextChunks == { i \in 1..Len(rag.arrived) : rag.arrived[i] }

\* C22: streamAnswer yields nothing before the query is validated and the
\* search has completed, yields no model fragment before the model was called
\* on a non-empty result list, and at every moment the model fragments
\* yielded are exactly the text chunks pulled so far, in arrival order: no
\* chunk is held back while the next one is pulled.
C22_FragmentsPassThroughInArrivalOrder ==
  entry = "streamAnswer" =>
    /\ Len(fragments) > 0 => ~isEmptyQuery(query) /\ selectedSearch.st = "done"
    /\ Len(ModelFragments) > 0 => CallLLM \in calls /\ Len(rag.searchResults) > 0
    /\ Len(ModelFragments) = Cardinality(TextChunks)
    /\ \A j \in 1..Len(ModelFragments) :
         /\ ModelFragments[j].index \in TextChunks
         /\ j > 1 => ModelFragments[j - 1].index < ModelFragments[j].index

C22_Witness ==
  /\ entry = "streamAnswer" /\ rag.st = "streaming"
  /\ rag.arrived = <<TRUE, TRUE>> /\ Len(ModelFragments) = 2
  /\ fragments[Len(fragments)].index = 2

\* C26: a generateAnswer call runs the language model at most once, only
\* after the selected search resolved with at least one result, never when
\* the query failed validation, and once the model has answered, with or
\* without citations, the call has returned with that single run.
C26_ModelInvokedAtMostOnce ==
  entry = "generateAnswer" =>
    /\ rag.invocations <= 1
    /\ rag.invocations = 1 <=> CallLLM \in calls
    /\ rag.invocations = 1 =>
         selectedSearch.st = "done" /\ Len(selectedSearch.results) >= 1
    /\ isEmptyQuery(query) =>
         rag.invocations = 0 /\ outcome = Rejected(EmptyQueryError)
    /\ rag.llm # "none" =>
         rag.st = "done" /\ outcome.st = "returned" /\ rag.invocations = 1

C26_Witness ==
  /\ entry = "generateAnswer" /\ outcome.st = "returned" /\ rag.llm = "text"
  /\ includes(outcome.value.answer, SourcesHeading)
  /\ rag.invocations = 1

\* ------------------------------------------------ the order of equal scores
\* The papers of the entries of seq that carry the score s, in their order.
PapersAt(seq, s) ==
  LET g == SelectSeq(seq, LAMBDA r : r.score = s)
  IN  [i \in 1..Len(g) |-> g[i].paper]

IsPrefix(a, b) == Len(a) <= Len(b) /\ \A i \in 1..Len(a) : a[i] = b[i]

\* The zero-based index of the semantic row that carries the bucket key.
SemanticIndexOf(key) ==
  CHOOSE i \in 0..(Len(fSemantic) - 1) : paperIdOf(fSemantic[i + 1], i) = key

\* C29: in the list hybridSearch returns, the entries of one fused score are
\* the first buckets of that score in the insertion order of combinedScores;
\* that order is the keyword rows in keyword rank order, followed by the
\* buckets the semantic loop created, in semantic rank order.
C29_TiesKeepInsertionOrder ==
  fPc = "fused" =>
    /\ \A i \in 1..Len(fOut) :
         IsPrefix(PapersAt(fOut, fOut[i].score), PapersAt(fCombined, fOut[i].score))
    /\ \A i \in 1..Len(fOut) : \A j \in 1..Len(fOut) :
         i < j => fOut[i].score >= fOut[j].score
    /\ \A j \in 1..Len(fCombined) :
         IF j <= Len(fKeyword)
         THEN fCombined[j].paper = fKeyword[j].paper
         ELSE /\ \E i \in 0..(Len(fSemantic) - 1) :
                   /\ paperIdOf(fSemantic[i + 1], i) = fCombined[j].key
                   /\ fSemantic[i + 1].paper = fCombined[j].paper
              /\ j < Len(fCombined) =>
                   SemanticIndexOf(fCombined[j].key) < SemanticIndexOf(fCombined[j + 1].key)

C29_Witness ==
  /\ fPc = "fused" /\ fKeywordWeight = 5 /\ fSemanticWeight = 5
  /\ Len(fKeyword) = 2 /\ Len(fSemantic) = 2 /\ Len(fOut) = 2
  /\ fOut[1].score = fOut[2].score /\ fOut[1].score > 0
  /\ fOut[1].paper = fKeyword[1].paper /\ fOut[2].paper = fSemantic[1].paper
  /\ fKeyword[1].paper # fSemantic[1].paper

\* ======================================== EmbeddingsService, batch embedding
\* private batchSize = 10
batchSize == 10

\* The texts of a batch call, by name.
TextOf(i) == <<"t1", "t2", "t3", "t4", "t5", "t6", "t7", "t8", "t9", "t10",
               "t11", "t12", "t13", "t14">>[i]

\* Where a list of texts may hold the empty text (0: nowhere).
EmptyPositions == {0, 2, batchSize + 1}

BatchTexts ==
  { [i \in 1..n |-> IF i = e THEN "" ELSE TextOf(i)] :
      n \in 0..MaxTexts, e \in EmptyPositions }

\* The array the embedding model answers with for a text.
EmbeddingOf(text) == <<text>>

\* A slice that takes every remaining text.
batchEndUnbounded(i, n) == n

\* texts.slice(i, i + this.batchSize) covers the zero-based i .. batchEnd - 1.
batchEnd(i, n) == Min(i + batchSize, n)

\* batch.map(text => this.generateEmbedding(text)): every call of the batch
\* starts; a call on the empty text throws before it reaches the model.
issueBatch(callsN, texts, i) ==
  [j \in 1..Len(texts) |->
     IF j > i /\ j <= batchEnd(i, Len(texts))
     THEN IF isEmptyText(texts[j]) THEN "rejected" ELSE "inflight"
     ELSE callsN[j]]

\* A combinator that waits for every call and fulfils whatever they gave.
promiseAllSettledAsFulfilled(callsN, i, n) ==
  IF \E j \in (i + 1)..batchEnd(i, n) : callsN[j] = "inflight" THEN "pending"
  ELSE "fulfilled"

\* Promise.all over the calls of the batch at i.
promiseAll(callsN, i, n) ==
  IF \E j \in (i + 1)..batchEnd(i, n) : callsN[j] = "rejected" THEN "rejected"
  ELSE IF \A j \in (i + 1)..batchEnd(i, n) : callsN[j] = "resolved" THEN "fulfilled"
  ELSE "pending"

\* batchEmbeddings: the values of the batch, in the order of the texts.
batchEmbeddings(texts, i) ==
  [m \in 1..(batchEnd(i, Len(texts)) - i) |-> EmbeddingOf(texts[i + m])]

Pending == [st |-> "pending", value |-> <<>>, error |-> ""]

\* The loop of generateEmbeddingsBatch from index i up to its next
\* suspension, its return or its throw; reason is the error of the call that
\* has just rejected.
RECURSIVE runLoop(_, _, _, _, _)
runLoop(texts, callsN, emb, i, reason) ==
  IF i >= Len(texts)
  THEN [calls |-> callsN, embeddings |-> emb, index |-> i,
        out |-> [st |-> "returned", value |-> emb, error |-> ""]]
  ELSE LET issued == IF callsN[i + 1] = "none" THEN issueBatch(callsN, texts, i) ELSE callsN
           status == promiseAll(issued, i, Len(texts))
       IN  IF status = "pending"
           THEN [calls |-> issued, embeddings |-> emb, index |-> i, out |-> Pending]
           ELSE IF status = "rejected"
           THEN [calls |-> issued, embeddings |-> emb, index |-> i,
                 out |-> Rejected(IF issued = callsN THEN reason ELSE EmptyTextError)]
           ELSE runLoop(texts, issued, emb \o batchEmbeddings(texts, i), i + batchSize, reason)

BatchFrame == UNCHANGED <<reqVars, pureVars, rateVars, setupVars, routeVars, concVars>>

\* EmbeddingsService.generateEmbeddingsBatch(texts), up to its first await.
generateEmbeddingsBatch ==
  /\ bPc = "ready"
  /\ LET r == runLoop(bTexts, bCalls, <<>>, 0, "")
     IN  /\ bCalls' = r.calls /\ bEmbeddings' = r.embeddings
         /\ bIndex' = r.index /\ bOut' = r.out
  /\ bPc' = "called"
  /\ UNCHANGED <<bTexts, bOutOfOrder>>
  /\ BatchFrame

\* The call j of generateEmbedding settles with what the model gave, and the
\* loop goes on if it was waiting for it.
SettleCall(j, state, reason) ==
  /\ bPc = "called" /\ j \in 1..Len(bTexts) /\ bCalls[j] = "inflight"
  /\ LET callsN == [bCalls EXCEPT ![j] = state]
         r      == runLoop(bTexts, callsN, bEmbeddings, bIndex, reason)
     IN  IF bOut.st = "pending"
         THEN /\ bCalls' = r.calls /\ bEmbeddings' = r.embeddings
              /\ bIndex' = r.index /\ bOut' = r.out
         ELSE /\ bCalls' = callsN
              /\ UNCHANGED <<bEmbeddings, bIndex, bOut>>
  /\ bOutOfOrder' = (bOutOfOrder \/
                       (state = "resolved" /\ \E h \in 1..(j - 1) : bCalls[h] = "inflight"))
  /\ UNCHANGED <<bTexts, bPc>>

\* ai.run resolves for text j: an array is returned, anything else throws
\* 'Invalid embedding response'.
BatchEmbedReturns(j, isArray) ==
  /\ SettleCall(j, IF isArray THEN "resolved" ELSE "rejected", InvalidEmbeddingError)
  /\ BatchFrame

\* ai.run rejects for text j: generateEmbedding rethrows.
BatchEmbedFails(j) ==
  /\ SettleCall(j, "rejected", AIFailure)
  /\ BatchFrame

BatchInit ==
  /\ ReqIdle /\ PureIdle /\ RateIdle /\ SetupIdle /\ RouteIdle /\ ConcIdle
  /\ bTexts \in BatchTexts
  /\ bCalls = [j \in 1..Len(bTexts) |-> "none"]
  /\ bIndex = 0 /\ bEmbeddings = <<>> /\ bOutOfOrder = FALSE
  /\ bOut = NoOutcome /\ bPc = "ready"

BatchNext ==
  \/ generateEmbeddingsBatch
  \/ \E j \in 1..MaxTexts, isArray \in BOOLEAN : BatchEmbedReturns(j, isArray)
  \/ \E j \in 1..MaxTexts : BatchEmbedFails(j)

BatchSpec == BatchInit /\ [][BatchNext]_vars

\* The embedding calls that have been issued and have not settled.
InFlight == { j \in 1..Len(bTexts) : bCalls[j] = "inflight" }

\* The zero-based number of the batch that holds text j.
BatchOf(j) == (j - 1) \div batchSize

\* C23: at most batchSize embedding calls are in flight at any moment, and a
\* call of a later batch has been issued only when every call of every
\* earlier batch has resolved.
C23_AtMostTenCallsInFlight ==
  /\ Cardinality(InFlight) <= batchSize
  /\ \A h \in 1..Len(bTexts) : \A j \in 1..Len(bTexts) :
       (BatchOf(h) < BatchOf(j) /\ bCalls[j] # "none") => bCalls[h] = "resolved"

C23_Witness ==
  /\ Len(bTexts) > batchSize
  /\ bCalls[batchSize + 1] = "inflight"
  /\ \A h \in 1..batchSize : bCalls[h] = "resolved"
  /\ bOutOfOrder

\* C24: generateEmbeddingsBatch returns only a list with one vector per text,
\* the i-th being the embedding of the i-th text, whatever the order in which
\* the calls completed; and once any embedding call has failed the call has
\* thrown.
C24_OneVectorPerTextOrFailure ==
  /\ bOut.st = "returned" =>
       /\ Len(bOut.value) = Len(bTexts)
       /\ \A i \in 1..Len(bTexts) : bOut.value[i] = EmbeddingOf(bTexts[i])
  /\ (\E j \in 1..Len(bTexts) : bCalls[j] = "rejected") => bOut.st = "thrown"
  /\ bOut.st = "thrown" => \E j \in 1..Len(bTexts) : bCalls[j] = "rejected"

C24_Witness ==
  /\ bOut.st = "returned" /\ Len(bTexts) = MaxTexts /\ bOutOfOrder
  /\ Len(bOut.value) = MaxTexts

\* ====================================================== RateLimiter.checkLimit
\* The limits a caller passes (config.requestsPerMinute).
RateLimits == {1, 2}

DigitSeq == <<"0", "1", "2", "3", "4", "5", "6", "7", "8", "9">>

\* String(newCount): the decimal digits of a count.
RECURSIVE String(_)
String(n) ==
  IF n < 10 THEN <<DigitSeq[n + 1]>>
  ELSE Append(String(n \div 10), DigitSeq[(n % 10) + 1])

DigitValue(d) == (CHOOSE i \in 1..10 : DigitSeq[i] = d) - 1

\* parseInt(cached) of a digit string.
RECURSIVE parseInt(_)
parseInt(text) ==
  IF Len(text) = 1 THEN DigitValue(text[1])
  ELSE parseInt(SubSeq(text, 1, Len(text) - 1)) * 10 + DigitValue(text[Len(text)])

\* const count = cached ? parseInt(cached) : 0
countOf(cached) == IF cached # NoValue THEN parseInt(cached) ELSE 0

\* The rest of the model is idle while the rate limiter is studied.
RateFrame ==
  UNCHANGED <<reqVars, pureVars, batchVars, setupVars, routeVars, concVars,
              rEnabled, rLimit, rStarted>>

\* RateLimiter.checkLimit(identifier, limit), up to its CACHE.get: a limiter
\* that is disabled or has no cache lets the call through.
checkLimit(c) ==
  /\ rStarted = "ready" /\ rPc[c] = "idle"
  /\ rPc' = [rPc EXCEPT ![c] = IF rEnabled THEN "get" ELSE "admitted"]
  /\ UNCHANGED <<rCached, rCount, rCacheFailed>>
  /\ RateFrame

\* CACHE.get resolves with the value the cache holds at that moment: the
\* call throws RateLimitError at the limit, and otherwise issues the put of
\* count + 1.
CacheGetReturns(c) ==
  /\ rPc[c] = "get"
  /\ LET count == countOf(rCached)
     IN  /\ rCount' = [rCount EXCEPT ![c] = count]
         /\ rPc' = [rPc EXCEPT ![c] = IF count >= rLimit THEN "limited" ELSE "put"]
  /\ UNCHANGED <<rCached, rCacheFailed>>
  /\ RateFrame

\* CACHE.put(cacheKey, String(newCount), ...) is applied and resolves: the
\* call returns.
CachePutReturns(c) ==
  /\ rPc[c] = "put"
  /\ rCached' = String(rCount[c] + 1)
  /\ rPc' = [rPc EXCEPT ![c] = "admitted"]
  /\ UNCHANGED <<rCount, rCacheFailed>>
  /\ RateFrame

\* A cache call rejects: the catch logs the error and allows the request.
CacheFails(c) ==
  /\ rPc[c] \in {"get", "put"}
  /\ rPc' = [rPc EXCEPT ![c] = "admitted"]
  /\ rCacheFailed' = TRUE
  /\ UNCHANGED <<rCached, rCount>>
  /\ RateFrame

RateInit ==
  /\ ReqIdle /\ PureIdle /\ BatchIdle /\ SetupIdle /\ RouteIdle /\ ConcIdle
  /\ rEnabled \in BOOLEAN /\ rLimit \in RateLimits
  /\ rCached = NoValue
  /\ rPc = [c \in 1..MaxCallers |-> "idle"]
  /\ rCount = [c \in 1..MaxCallers |-> 0]
  /\ rCacheFailed = FALSE /\ rStarted = "ready"

RateNext ==
  \E c \in 1..MaxCallers :
    \/ checkLimit(c)
    \/ CacheGetReturns(c)
    \/ CachePutReturns(c)
    \/ CacheFails(c)

RateSpec == RateInit /\ [][RateNext]_vars

\* The calls that returned without RateLimitError.
Admitted == { c \in 1..Len(rPc) : rPc[c] = "admitted" }

\* C27: with the limiter enabled and every cache call answered, the calls
\* admitted for the identifier within the window never exceed the limit.
C27_AdmittedNeverExceedLimit ==
  (rEnabled /\ ~rCacheFailed) => Cardinality(Admitted) <= rLimit

\* ================================ AISearchSetupService.ensureAISearchInstance
\* The cache keys `${config.accountId}-${config.instanceName}` of the configs
\* the service is called with.
SetupKeys == {"acct-arxiv", "acct-papers"}

NoCall == [pc |-> "idle", key |-> "", busy |-> FALSE, cached |-> FALSE,
           path |-> "none", result |-> FALSE]

\* A guard that never finds a setup in progress.
inProgressNever(flag) == FALSE

\* if (this.setupInProgress)
inProgress(flag) == flag

SetupFrame ==
  UNCHANGED <<reqVars, pureVars, batchVars, rateVars, routeVars, concVars, gStarted>>

\* ensureAISearchInstance(config) up to its first await: the cached result,
\* false while a setup is in progress, or the flag set and the existence
\* check issued.
ensureAISearchInstance(c, key) ==
  /\ gStarted = "ready" /\ gCalls[c].pc = "idle"
  /\ LET has0   == gCache[key] # "absent"
         seen   == [NoCall EXCEPT !.key = key, !.busy = gInProgress, !.cached = has0]
     IN  IF has0
         THEN /\ gCalls' = [gCalls EXCEPT ![c] =
                              [seen EXCEPT !.pc = "returned", !.path = "cached",
                                           !.result = (gCache[key] = "true")]]
              /\ UNCHANGED <<gInProgress, gCache>>
         ELSE IF inProgress(gInProgress)
         THEN /\ gCalls' = [gCalls EXCEPT ![c] =
                              [seen EXCEPT !.pc = "returned", !.path = "busy",
                                           !.result = FALSE]]
              /\ UNCHANGED <<gInProgress, gCache>>
         ELSE /\ gInProgress' = TRUE
              /\ gCalls' = [gCalls EXCEPT ![c] = [seen EXCEPT !.pc = "checking", !.path = "ran"]]
              /\ UNCHANGED gCache
  /\ SetupFrame

\* checkInstanceExists resolves (it catches every error and answers false):
\* an existing instance is cached and returned, otherwise the create
\* request is issued.
CheckReturns(c, exists) ==
  /\ gCalls[c].pc = "checking"
  /\ IF exists
     THEN /\ gCache' = [gCache EXCEPT ![gCalls[c].key] = "true"]
          /\ gCalls' = [gCalls EXCEPT ![c].pc = "returned", ![c].result = TRUE]
          /\ gInProgress' = FALSE
     ELSE /\ gCalls' = [gCalls EXCEPT ![c].pc = "creating"]
          /\ UNCHANGED <<gCache, gInProgress>>
  /\ SetupFrame

\* createAISearchInstance resolves (it catches every error and answers
\* false): the outcome is cached and returned, and finally clears the flag.
CreateReturns(c, created) ==
  /\ gCalls[c].pc = "creating"
  /\ gCache' = [gCache EXCEPT ![gCalls[c].key] = IF created THEN "true" ELSE "false"]
  /\ gCalls' = [gCalls EXCEPT ![c].pc = "returned", ![c].result = created]
  /\ gInProgress' = FALSE
  /\ SetupFrame

SetupInit ==
  /\ ReqIdle /\ PureIdle /\ BatchIdle /\ RateIdle /\ RouteIdle /\ ConcIdle
  /\ gInProgress = FALSE
  /\ gCache = [key \in SetupKeys |-> "absent"]
  /\ gCalls = [c \in 1..MaxSetupCalls |-> NoCall]
  /\ gStarted = "ready"

SetupNext ==
  \/ \E c \in 1..MaxSetupCalls, key \in SetupKeys : ensureAISearchInstance(c, key)
  \/ \E c \in 1..MaxSetupCalls, exists \in BOOLEAN : CheckReturns(c, exists)
  \/ \E c \in 1..MaxSetupCalls, created \in BOOLEAN : CreateReturns(c, created)

SetupSpec == SetupInit /\ [][SetupNext]_vars

\* The calls between setting setupInProgress and clearing it.
Running == { c \in 1..Len(gCalls) : gCalls[c].pc \in {"checking", "creating"} }

\* C28 as stated: every call that arrives while a setup is in progress
\* returns false.
C28_CallDuringSetupReturnsFalse ==
  \A c \in 1..Len(gCalls) :
    (gCalls[c].pc = "returned" /\ gCalls[c].busy) => gCalls[c].result = FALSE

\* C28: at most one call is between setting setupInProgress and clearing
\* it, the flag is set exactly while such a call exists, a call that arrives
\* meanwhile for a key not in the cache returns false, one for a cached key
\* returns the cached value, and every cache entry was written by a call
\* that ran the setup for that key and returned that value.
C28_OneSetupAtATime ==
  /\ Cardinality(Running) <= 1
  /\ gInProgress <=> Running # {}
  /\ \A c \in 1..Len(gCalls) :
       gCalls[c].pc = "returned" =>
         /\ (gCalls[c].busy /\ ~gCalls[c].cached) =>
              gCalls[c].path = "busy" /\ gCalls[c].result = FALSE
         /\ gCalls[c].cached =>
              gCalls[c].path = "cached" /\ gCalls[c].result = (gCache[gCalls[c].key] = "true")
  /\ \A key \in DOMAIN gCache :
       gCache[key] # "absent" =>
         \E c \in 1..Len(gCalls) :
           /\ gCalls[c].key = key /\ gCalls[c].path = "ran" /\ gCalls[c].pc = "returned"
           /\ gCalls[c].result = (gCache[key] = "true")

C28_Witness ==
  \E c \in 1..Len(gCalls) : \E d \in 1..Len(gCalls) :
    /\ gCalls[c].pc = "creating"
    /\ gCalls[d].pc = "returned" /\ gCalls[d].path = "busy"
    /\ gCalls[d].key = gCalls[c].key /\ gCache[gCalls[c].key] = "absent"

\* ========================================================= the /stream route
\* A query of more than 2000 characters.
LongQuery == "transformers ... (2001 characters)"

\* What the body of a request can give for `query`.
RouteQueries == {"", "transformers", LongQuery}

\* if (query.length > 2000)
isTooLong(q) == q = LongQuery

Event(type, n) == [type |-> type, fragment |-> n]

TerminalEvents == {"complete", "error"}

\* A finally block that leaves the writer open.
closeWriterSkipped(closes) == closes

\* finally { await writer.close() }
closeWriter(closes) == closes + 1

RouteFrame == UNCHANGED <<reqVars, pureVars, batchVars, rateVars, setupVars, concVars>>

\* ragRouter.post('/stream'): a request without a query or with too long a
\* query is answered 400; otherwise the background task starts with the
\* write of the start event and the response carries the readable side.
streamRoute(q) ==
  /\ tPc = "ready"
  /\ IF isEmptyQuery(q) \/ isTooLong(q)
     THEN tResponse' = "400" /\ tPc' = "done"
     ELSE tResponse' = "stream" /\ tPc' = "start"
  /\ UNCHANGED <<tEvents, tYielded, tGen, tCancelled, tRejected, tCloses>>
  /\ RouteFrame

\* The client goes away: the stream rejects every write from now on.
ClientGoesAway ==
  /\ tResponse = "stream" /\ ~tCancelled /\ tPc # "done"
  /\ tCancelled' = TRUE
  /\ UNCHANGED <<tPc, tResponse, tEvents, tYielded, tGen, tRejected, tCloses>>
  /\ RouteFrame

\* await writer.write(...) resolves: after start or a chunk the next
\* fragment is pulled; after complete or error the finally block closes the
\* writer.
WriteResolves ==
  /\ tPc \in {"start", "chunk", "complete", "error"} /\ ~tCancelled
  /\ tEvents' = Append(tEvents, Event(tPc, IF tPc = "chunk" THEN tYielded ELSE 0))
  /\ IF tPc \in TerminalEvents
     THEN tPc' = "closing" /\ tCloses' = closeWriter(tCloses)
     ELSE tPc' = "pull" /\ tCloses' = tCloses
  /\ UNCHANGED <<tResponse, tYielded, tGen, tCancelled, tRejected>>
  /\ RouteFrame

\* await writer.write(...) rejects: inside try the catch block writes the
\* error event; inside catch the rejection leaves through finally.
WriteRejects ==
  /\ tPc \in {"start", "chunk", "complete", "error"} /\ tCancelled
  /\ tRejected' = TRUE
  /\ IF tPc = "error"
     THEN tPc' = "closing" /\ tCloses' = closeWriter(tCloses)
     ELSE tPc' = "error" /\ tCloses' = tCloses
  /\ UNCHANGED <<tResponse, tEvents, tYielded, tGen, tCancelled>>
  /\ RouteFrame

\* for await (const chunk of ragService.streamAnswer(...)): a fragment
\* arrives and its chunk event is written.
GenYields ==
  /\ tPc = "pull" /\ tYielded < MaxFragments
  /\ tYielded' = tYielded + 1 /\ tPc' = "chunk"
  /\ UNCHANGED <<tResponse, tEvents, tGen, tCancelled, tRejected, tCloses>>
  /\ RouteFrame

\* The generator finishes: the complete event is written.
GenReturns ==
  /\ tPc = "pull"
  /\ tGen' = "finished" /\ tPc' = "complete"
  /\ UNCHANGED <<tResponse, tEvents, tYielded, tCancelled, tRejected, tCloses>>
  /\ RouteFrame

\* The generator throws: the catch block writes the error event.
GenThrows ==
  /\ tPc = "pull"
  /\ tGen' = "threw" /\ tPc' = "error"
  /\ UNCHANGED <<tResponse, tEvents, tYielded, tCancelled, tRejected, tCloses>>
  /\ RouteFrame

\* await writer.close() settles: the background task is over.
CloseSettles ==
  /\ tPc = "closing"
  /\ tPc' = "done"
  /\ UNCHANGED <<tResponse, tEvents, tYielded, tGen, tCancelled, tRejected, tCloses>>
  /\ RouteFrame

RouteInit ==
  /\ ReqIdle /\ PureIdle /\ BatchIdle /\ RateIdle /\ SetupIdle /\ ConcIdle
  /\ tPc = "ready" /\ tResponse = "none" /\ tEvents = <<>> /\ tYielded = 0
  /\ tGen = "running" /\ tCancelled = FALSE /\ tRejected = FALSE /\ tCloses = 0

RouteNext ==
  \/ \E q \in RouteQueries : streamRoute(q)
  \/ ClientGoesAway
  \/ WriteResolves
  \/ WriteRejects
  \/ GenYields
  \/ GenReturns
  \/ GenThrows
  \/ CloseSettles

RouteSpec == RouteInit /\ [][RouteNext]_vars

\* The terminal events among the events the writer accepted.
TerminalsWritten == { i \in 1..Len(tEvents) : tEvents[i].type \in TerminalEvents }

\* The background task has left its try/catch.
TaskOver == tResponse = "stream" /\ tPc \in {"closing", "done"}

ConcQueries == {"transformers", "diffusion"}

ConcEntries == {"hybridSearch", "generateAnswer"}

\* The stores the two requests can share: per query, the papers the LIKE
\* pattern matches and the list the semantic search gives.
ConcStores ==
  { [matched |-> m, similar |-> sl] :
      m  \in [ConcQueries -> {{}, StorePapers}],
      sl \in [ConcQueries ->
                {<<>>, <<[paper |-> PaperSeq[1], score |-> 8, relevance |-> "semantic"]>>}] }

NoRequest == [entry |-> "none", query |-> "", topK |-> 0, pc |-> "idle",
              kw |-> NoPromise, sem |-> NoPromise, results |-> <<>>, out |-> <<>>]

\* A service that keeps one map for all its fusions.
reusedMap(last) == last

\* const combinedScores = new Map<...>()
freshMap(last) == <<>>

\* hybridSearch after Promise.all, over the map it starts from: the map it
\* built and the list it returns.
fuseFrom(initial, keywordResults, semanticResults, k0, wk, ws) ==
  LET combined == accumulate(accumulate(initial, normalizeScores(keywordResults), wk, 0),
                             normalizeScores(semanticResults), ws, 0)
      top      == slice(sortByScoreDesc(combined), k0)
  IN  [map |-> combined,
       results |-> [i \in 1..Len(top) |->
                      [paper |-> top[i].paper, score |-> top[i].score, relevance |-> "hybrid"]]]

\* The text the language model gives for a question and its context.
LLMTextFor(q, results) == <<Token(q, Len(results), results[1].paper.arxiv_id)>>

ConcFrame == UNCHANGED <<reqVars, pureVars, batchVars, rateVars, setupVars, routeVars, cStore>>

\* The route builds the services of request r and calls the entry point:
\* hybridSearch issues the keyword and the semantic search.
ConcCall(r, e, q, k0) ==
  /\ Len(cReq) > 0 /\ cReq[r].pc = "idle"
  /\ cReq' = [cReq EXCEPT ![r] =
                [NoRequest EXCEPT !.entry = e, !.query = q, !.topK = k0, !.pc = "searching",
                                  !.kw = [NoPromise EXCEPT !.st = "pending"],
                                  !.sem = [NoPromise EXCEPT !.st = "pending"]]]
  /\ cOverlap' = (cOverlap \/ \E o \in 1..Len(cReq) : cReq[o].pc \in {"searching", "llm"})
  /\ UNCHANGED cLastMap
  /\ ConcFrame

\* Request r after one of its searches resolved: once both have, the lists
\* are fused; hybridSearch returns the list, generateAnswer returns the
\* canned answer or calls the language model.
AfterSearch(r, reqN) ==
  IF allResolved(reqN.kw.st, reqN.sem.st)
  THEN LET f == fuseFrom(freshMap(cLastMap), reqN.kw.results, reqN.sem.results,
                         reqN.topK, 5, 5)
       IN  /\ cLastMap' = f.map
           /\ cReq' = [cReq EXCEPT ![r] =
                IF reqN.entry = "hybridSearch"
                THEN [reqN EXCEPT !.pc = "done", !.results = f.results, !.out = f.results]
                ELSE IF noResults(f.results)
                THEN [reqN EXCEPT !.pc = "done", !.out = CannedResponse]
                ELSE [reqN EXCEPT !.pc = "llm", !.results = f.results]]
  ELSE cReq' = [cReq EXCEPT ![r] = reqN] /\ cLastMap' = cLastMap

\* d1Client.searchKeyword resolves for request r.
ConcKeywordReturns(r) ==
  /\ Len(cReq) > 0 /\ cReq[r].pc = "searching" /\ cReq[r].kw.st = "pending"
  /\ AfterSearch(r, [cReq[r] EXCEPT !.kw =
       [st |-> "done", error |-> "",
        results |-> searchKeyword(cStore.matched[cReq[r].query], cReq[r].topK * 2)]])
  /\ UNCHANGED cOverlap
  /\ ConcFrame

\* The semantic search of request r resolves.
ConcSemanticReturns(r) ==
  /\ Len(cReq) > 0 /\ cReq[r].pc = "searching" /\ cReq[r].sem.st = "pending"
  /\ AfterSearch(r, [cReq[r] EXCEPT !.sem =
       [st |-> "done", error |-> "",
        results |-> slice(cStore.similar[cReq[r].query], cReq[r].topK * 2)]])
  /\ UNCHANGED cOverlap
  /\ ConcFrame

\* The language model answers request r: generateAnswer returns.
ConcLLMReturns(r) ==
  /\ Len(cReq) > 0 /\ cReq[r].pc = "llm"
  /\ cReq' = [cReq EXCEPT ![r].pc = "done",
                          ![r].out =
                            [answer |-> formatAnswerWithCitations(
                                          LLMTextFor(cReq[r].query, cReq[r].results),
                                          cReq[r].results),
                             sources |-> sourcesOf(cReq[r].results)]]
  /\ UNCHANGED <<cLastMap, cOverlap>>
  /\ ConcFrame

ConcInit ==
  /\ ReqIdle /\ PureIdle /\ BatchIdle /\ RateIdle /\ SetupIdle /\ RouteIdle
  /\ cStore \in ConcStores
  /\ cReq = [r \in 1..2 |-> NoRequest]
  /\ cLastMap = <<>> /\ cOverlap = FALSE

ConcNext ==
  \E r \in 1..2 :
    \/ \E e \in ConcEntries, q \in ConcQueries, k0 \in 1..MaxTopK : ConcCall(r, e, q, k0)
    \/ ConcKeywordReturns(r)
    \/ ConcSemanticReturns(r)
    \/ ConcLLMReturns(r)

ConcSpec == ConcInit /\ [][ConcNext]_vars

\* What a request returns when it runs alone against the store.
Alone(req) ==
  LET res == fuse(searchKeyword(cStore.matched[req.query], req.topK * 2),
                  slice(cStore.similar[req.query], req.topK * 2), req.topK, 5, 5)
  IN  IF req.entry = "hybridSearch" THEN res
      ELSE IF Len(res) = 0 THEN CannedResponse
      ELSE [answer |-> formatAnswerWithCitations(LLMTextFor(req.query, res), res),
            sources |-> sourcesOf(res)]

\* C25: in every interleaving of two requests at their suspension points,
\* a request that has returned has returned what it returns when it runs
\* alone against the same store and models.
C25_RequestsDoNotInterfere ==
  \A r \in 1..Len(cReq) : cReq[r].pc = "done" => cReq[r].out = Alone(cReq[r])

C25_Witness ==
  /\ Len(cReq) = 2 /\ cOverlap
  /\ cReq[1].pc = "done" /\ cReq[2].pc = "done"
  /\ cReq[1].entry = "generateAnswer" /\ cReq[2].entry = "hybridSearch"
  /\ cReq[1].query # cReq[2].query
  /\ Len(cReq[1].results) > 0 /\ Len(cReq[2].results) > 0

=============================================================================
